---- MODULE Spec2Model ----
(***************************************************************************)
(* gcallm: the conflict report parser (gcallm/conflicts.py) and the        *)
(* two-phase interactive orchestrator (gcallm/agent.py,                    *)
(* gcallm/interaction.py).                                                 *)
(*                                                                         *)
(* Text is a sequence of one-character strings, so that Python's substring *)
(* test `needle in text`, "".join and the f-string prompt builders are     *)
(* computed character by character.                                        *)
(***************************************************************************)
EXTENDS Integers, Sequences, FiniteSets, TLC

(***************************************************************************)
(* Bounds                                                                  *)
(***************************************************************************)
\* messages the agent streams back per phase before the stream is exhausted
MaxMsgs == 2

\* captured tool results per agent
MaxToolResults == 1

\* lines of a reply after its first line
MaxLines == 3

\* the calls of run made on one CalendarAgent
MaxRequests == 2

\* messages per phase when several requests are made on one agent
MaxRequestMsgs == 1

\* lines of a phase-1 reply given to extract_conflicts
MaxConflictLines == 4

\* bullets listed under the header of a phase-1 reply
MaxBullets == 6

\* tool results captured during one response stream when the stream is
\* looked at on its own
MaxHookCaptures == 2

(***************************************************************************)
(* Python string primitives                                                *)
(***************************************************************************)
\* needle in hay   (str.__contains__)
Contains(hay, needle) ==
    \/ Len(needle) = 0
    \/ \E i \in 1..(Len(hay) - Len(needle) + 1) :
           /\ hay[i] = needle[1]
           /\ SubSeq(hay, i, i + Len(needle) - 1) = needle

\* "".join(parts)
RECURSIVE Join(_)
Join(parts) ==
    IF parts = <<>> THEN <<>> ELSE Head(parts) \o Join(Tail(parts))

\* text begins with prefix   (str.startswith)
StartsWith(text, prefix) ==
    /\ Len(text) >= Len(prefix)
    /\ SubSeq(text, 1, Len(prefix)) = prefix

\* text ends with suffix   (str.endswith)
EndsWith(text, suffix) ==
    /\ Len(text) >= Len(suffix)
    /\ SubSeq(text, Len(text) - Len(suffix) + 1, Len(text)) = suffix

\* characters str.strip() removes and the regex class \s matches
IsSpace(c) == c \in {" ", "\n", "\t", "\r", "\f"}

RECURSIVE LStrip(_)
LStrip(s) == IF s # <<>> /\ IsSpace(Head(s)) THEN LStrip(Tail(s)) ELSE s

RECURSIVE RStrip(_)
RStrip(s) ==
    IF s # <<>> /\ IsSpace(s[Len(s)]) THEN RStrip(SubSeq(s, 1, Len(s) - 1)) ELSE s

\* s.strip()
Strip(s) == RStrip(LStrip(s))

\* s.split("\n")
RECURSIVE SplitLines(_)
SplitLines(s) ==
    IF \A i \in 1..Len(s) : s[i] # "\n" THEN <<s>>
    ELSE LET i == CHOOSE k \in 1..Len(s) :
                      s[k] = "\n" /\ \A j \in 1..(k - 1) : s[j] # "\n"
         IN  <<SubSeq(s, 1, i - 1)>> \o SplitLines(SubSeq(s, i + 1, Len(s)))

\* "\n".join(parts)
RECURSIVE JoinLines(_)
JoinLines(parts) ==
    IF parts = <<>> THEN <<>>
    ELSE IF Len(parts) = 1 THEN parts[1]
    ELSE parts[1] \o <<"\n">> \o JoinLines(Tail(parts))

\* s.lower() on the ASCII letters
UPPERCASE ==
    <<"A","B","C","D","E","F","G","H","I","J","K","L","M",
      "N","O","P","Q","R","S","T","U","V","W","X","Y","Z">>

LOWERCASE ==
    <<"a","b","c","d","e","f","g","h","i","j","k","l","m",
      "n","o","p","q","r","s","t","u","v","w","x","y","z">>

LowerChar(c) ==
    IF \E i \in 1..26 : UPPERCASE[i] = c
    THEN LOWERCASE[CHOOSE i \in 1..26 : UPPERCASE[i] = c]
    ELSE c

Lower(s) == [i \in 1..Len(s) |-> LowerChar(s[i])]

\* re.sub(p1|p2|..., "", s) for literal alternatives pats, tried in order at
\* each position; with one alternative also s.replace(p1, "")
RECURSIVE RemoveAll(_, _)
RemoveAll(s, pats) ==
    IF s = <<>> THEN <<>>
    ELSE IF \E k \in 1..Len(pats) : StartsWith(s, pats[k])
    THEN LET k == CHOOSE n \in 1..Len(pats) :
                      /\ StartsWith(s, pats[n])
                      /\ \A j \in 1..(n - 1) : ~StartsWith(s, pats[j])
         IN  RemoveAll(SubSeq(s, Len(pats[k]) + 1, Len(s)), pats)
    ELSE <<Head(s)>> \o RemoveAll(Tail(s), pats)

\* s.find(pat) + 1: position of the first occurrence, 0 if there is none
FindFirst(s, pat) ==
    IF Contains(s, pat)
    THEN CHOOSE i \in 1..(Len(s) - Len(pat) + 1) :
             /\ SubSeq(s, i, i + Len(pat) - 1) = pat
             /\ \A j \in 1..(i - 1) : SubSeq(s, j, j + Len(pat) - 1) # pat
    ELSE 0

\* str(n) for a non-negative integer, as an f-string renders {len(...)}
Digit(d) == <<"0","1","2","3","4","5","6","7","8","9">>[d + 1]

RECURSIVE IntToStr(_)
IntToStr(n) ==
    IF n < 10 THEN <<Digit(n)>> ELSE IntToStr(n \div 10) \o <<Digit(n % 10)>>

(***************************************************************************)
(* Literals of gcallm/conflicts.py                                         *)
(***************************************************************************)
AWAIT_USER_DECISION == <<"<","<","A","W","A","I","T","_","U","S","E","R","_","D","E","C",
                         "I","S","I","O","N",">",">">>

IMPORTANT_CONFLICTS_DETECTED == <<"I","M","P","O","R","T","A","N","T"," ","C","O","N","F","L","I",
                                  "C","T","S"," ","D","E","T","E","C","T","E","D">>

MINOR_CONFLICTS == <<"M","I","N","O","R"," ","C","O","N","F","L","I","C","T","S">>

(***************************************************************************)
(* ConflictReport.from_response (gcallm/conflicts.py)                      *)
(***************************************************************************)
ConflictReport(hc, imp, nud, response) ==
    [has_conflicts |-> hc, is_important |-> imp,
     needs_user_decision |-> nud, phase1_response |-> response]

\* from_response without `or needs_user_decision` in has_important_conflicts
from_response_NoMarkerUnion(response) ==
    IF Contains(response, IMPORTANT_CONFLICTS_DETECTED)
    THEN ConflictReport(TRUE, TRUE, TRUE, response)
    ELSE IF Contains(response, MINOR_CONFLICTS)
    THEN ConflictReport(TRUE, FALSE, FALSE, response)
    ELSE ConflictReport(FALSE, FALSE, FALSE, response)

\* from_response with is_important=True in the minor branch
from_response_MinorImportant(response) ==
    IF Contains(response, IMPORTANT_CONFLICTS_DETECTED)
       \/ Contains(response, AWAIT_USER_DECISION)
    THEN ConflictReport(TRUE, TRUE, TRUE, response)
    ELSE IF Contains(response, MINOR_CONFLICTS)
    THEN ConflictReport(TRUE, TRUE, FALSE, response)
    ELSE ConflictReport(FALSE, FALSE, FALSE, response)

\* from_response with has_conflicts=True in the final branch
from_response_FailClosed(response) ==
    IF Contains(response, IMPORTANT_CONFLICTS_DETECTED)
       \/ Contains(response, AWAIT_USER_DECISION)
    THEN ConflictReport(TRUE, TRUE, TRUE, response)
    ELSE IF Contains(response, MINOR_CONFLICTS)
    THEN ConflictReport(TRUE, FALSE, FALSE, response)
    ELSE ConflictReport(TRUE, FALSE, FALSE, response)

\* from_response with needs_user_decision=True in the minor branch
from_response_MinorPauses(response) ==
    IF Contains(response, IMPORTANT_CONFLICTS_DETECTED)
       \/ Contains(response, AWAIT_USER_DECISION)
    THEN ConflictReport(TRUE, TRUE, TRUE, response)
    ELSE IF Contains(response, MINOR_CONFLICTS)
    THEN ConflictReport(TRUE, FALSE, TRUE, response)
    ELSE ConflictReport(FALSE, FALSE, FALSE, response)

from_response(response) ==
    LET needs_user_decision == Contains(response, AWAIT_USER_DECISION)
        has_important_conflicts ==
            Contains(response, IMPORTANT_CONFLICTS_DETECTED) \/ needs_user_decision
        has_minor_conflicts == Contains(response, MINOR_CONFLICTS)
    IN  IF has_important_conflicts
        THEN ConflictReport(TRUE, TRUE, TRUE, response)
        ELSE IF has_minor_conflicts
        THEN ConflictReport(TRUE, FALSE, FALSE, response)
        ELSE ConflictReport(FALSE, FALSE, FALSE, response)

(***************************************************************************)
(* System prompts of gcallm/agent.py.  A prompt is represented by its name *)
(* and by the instructions its text carries that the orchestration relies  *)
(* on.                                                                     *)
(***************************************************************************)
\* re.search(r"- \*\*([^*]+)\*\*", line) tried at position k: <<group 1>>, or
\* <<>> when the pattern does not match there
BoldMatchAt(line, k) ==
    IF ~StartsWith(SubSeq(line, k, Len(line)), <<"-"," ","*","*">>) THEN <<>>
    ELSE LET from  == k + 4
             stars == { e \in from..Len(line) : line[e] = "*" }
         IN  IF stars = {} THEN <<>>
             ELSE LET e == CHOOSE x \in stars : \A y \in stars : x <= y
                  IN  IF e > from /\ e + 1 <= Len(line) /\ line[e + 1] = "*"
                      THEN <<SubSeq(line, from, e - 1)>>
                      ELSE <<>>

\* re.search(r"- \*\*([^*]+)\*\*", line): the leftmost match
BoldMatch(line) ==
    LET at == { k \in 1..Len(line) : BoldMatchAt(line, k) # <<>> }
    IN  IF at = {} THEN <<>>
        ELSE BoldMatchAt(line, CHOOSE k \in at : \A j \in at : k <= j)

\* a title is taken from the five lines after a header: lines[max(0, i - 5):i]
PROPOSED_WINDOW == 5

\* the body of the loop of extract_proposed_events (conflicts.py:73-85) for
\* the line at index i, counted from 1: the titles it appends
ProposedAt(lines, i) ==
    LET line == Strip(lines[i])
        from == IF i - PROPOSED_WINDOW > 1 THEN i - PROPOSED_WINDOW ELSE 1
        prev_context == Lower(JoinLines(SubSeq(lines, from, i - 1)))
        match == BoldMatch(line)
    IN  IF /\ StartsWith(line, <<"-"," ","*","*">>)
           /\ i - 1 > 0
           /\ Contains(prev_context, <<"p","r","o","p","o","s","e","d">>) \/ Contains(prev_context, <<"w","i","l","l"," ","c","r","e","a","t","e">>)
           /\ match # <<>>
           /\ ~Contains(Lower(match[1]), <<"d","a","t","e">>)
           /\ Strip(match[1]) # <<>>
        THEN <<Strip(match[1])>>
        ELSE <<>>

RECURSIVE ProposedUpTo(_, _)
ProposedUpTo(lines, n) ==
    IF n = 0 THEN <<>> ELSE ProposedUpTo(lines, n - 1) \o ProposedAt(lines, n)

\* extract_proposed_events (conflicts.py:60-87)
extract_proposed_events(response) ==
    LET lines == SplitLines(response)
    IN  ProposedUpTo(lines, Len(lines))

\* the loop of extract_conflicts (conflicts.py:106-121) over the lines left
RECURSIVE ConflictScan(_, _)
ConflictScan(lines, in_conflicts_section) ==
    IF lines = <<>> THEN <<>>
    ELSE LET line == Strip(Head(lines))
         IN  IF Contains(Lower(line), <<"c","o","n","f","l","i","c","t","s"," ","d","e","t","e","c","t",
                                        "e","d",":">>)
             THEN ConflictScan(Tail(lines), TRUE)
             ELSE IF ~in_conflicts_section
             THEN ConflictScan(Tail(lines), FALSE)
             ELSE IF line = <<>> \/ StartsWith(line, <<"<","<">>)
             THEN <<>>
             ELSE IF StartsWith(line, <<"-"," ","*","*">>)
             THEN <<Strip(SubSeq(line, 3, Len(line)))>>
                      \o ConflictScan(Tail(lines), TRUE)
             ELSE ConflictScan(Tail(lines), TRUE)

\* an extraction that needs no header line
extract_conflicts_NoHeaderNeeded(response) == ConflictScan(SplitLines(response), TRUE)

\* extract_conflicts (conflicts.py:90-123)
extract_conflicts(response) == ConflictScan(SplitLines(response), FALSE)

\* agent.py:21-64: "create events using mcp__google-calendar__create-event",
\* "Create events directly without asking for confirmation"; no conflict check
SYSTEM_PROMPT ==
    [name |-> "SYSTEM_PROMPT",
     conflict_analysis |-> FALSE,
     forbids_creation_in_phase1 |-> FALSE,
     creation_step |-> TRUE]

\* agent.py:66-208: "PHASE 1 - ANALYSIS (DO NOT CREATE EVENTS YET)", "Check for
\* conflicts using mcp__google-calendar__get-freebusy", "Respond with CONFLICT
\* REPORT", and "PHASE 2 - CREATION (after user confirmation)"
INTERACTIVE_SYSTEM_PROMPT ==
    [name |-> "INTERACTIVE_SYSTEM_PROMPT",
     conflict_analysis |-> TRUE,
     forbids_creation_in_phase1 |-> TRUE,
     creation_step |-> TRUE]

\* a prompt the user stored with `gcallm prompt` (gcallm.config)
CUSTOM_SYSTEM_PROMPT ==
    [name |-> "custom_system_prompt",
     conflict_analysis |-> FALSE,
     forbids_creation_in_phase1 |-> FALSE,
     creation_step |-> TRUE]

(***************************************************************************)
(* Prompt builders                                                         *)
(***************************************************************************)
\* for path in screenshot_paths: prompt += f"- {path}\n"
RECURSIVE PathLines(_)
PathLines(paths) ==
    IF paths = <<>> THEN <<>>
    ELSE <<"-"," ">> \o Head(paths) \o <<"\n">> \o PathLines(Tail(paths))

\* process_events: full_prompt (agent.py:323-335)
full_prompt(input, paths, isInteractive) ==
    <<"U","s","e","r"," ","i","n","p","u","t",":"," ">> \o input \o <<"\n">>
    \o (IF paths # <<>>
        THEN <<"\n","S","c","r","e","e","n","s","h","o","t","s"," ","t","o"," ",
               "a","n","a","l","y","z","e"," ","(">> \o IntToStr(Len(paths)) \o <<")",":","\n">>
             \o PathLines(paths)
        ELSE <<>>)
    \o (IF isInteractive
        THEN <<"\n","P","l","e","a","s","e"," ","a","n","a","l","y","z","e"," ",
               "t","h","i","s"," ","r","e","q","u","e","s","t"," ","a","n","d",
               " ","c","h","e","c","k"," ","f","o","r"," ","c","o","n","f","l",
               "i","c","t","s"," ","(","P","h","a","s","e"," ","1",")",".">>
        ELSE <<"\n","P","l","e","a","s","e"," ","c","r","e","a","t","e"," ","t",
               "h","e"," ","e","v","e","n","t","(","s",")"," ","a","s"," ","d",
               "e","s","c","r","i","b","e","d",".">>)

\* the closing instruction of the phase-2 prompt (interaction.py:99)
PLEASE_PROCEED == <<"\n","P","l","e","a","s","e"," ","p","r","o","c","e","e","d"," ",
                    "w","i","t","h"," ","c","r","e","a","t","i","n","g"," ","t","h",
                    "e"," ","e","v","e","n","t","(","s",")"," ","n","o","w",".">>

\* a phase-2 prompt that leaves the screenshots out
format_phase2_prompt_NoScreenshots(user_decision, original_input, paths) ==
    user_decision \o <<"\n","\n">>
    \o <<"O","r","i","g","i","n","a","l"," ","r","e","q","u","e","s","t",
         ":"," ">> \o original_input \o <<"\n">>
    \o PLEASE_PROCEED

\* format_phase2_prompt (interaction.py:76-100)
format_phase2_prompt(user_decision, original_input, paths) ==
    user_decision \o <<"\n","\n">>
    \o <<"O","r","i","g","i","n","a","l"," ","r","e","q","u","e","s","t",
         ":"," ">> \o original_input \o <<"\n">>
    \o (IF paths # <<>>
        THEN <<"\n","S","c","r","e","e","n","s","h","o","t","s"," ","(">> \o IntToStr(Len(paths)) \o <<")",":","\n">>
             \o PathLines(paths)
        ELSE <<>>)
    \o PLEASE_PROCEED

\* the two decision messages of process_events_interactive (agent.py:409-413)
USER_CONFIRMED == <<"U","s","e","r"," ","c","o","n","f","i","r","m","e","d",":"," ",
                    "p","r","o","c","e","e","d"," ","w","i","t","h"," ","e","v","e",
                    "n","t"," ","c","r","e","a","t","i","o","n"," ","d","e","s","p",
                    "i","t","e"," ","c","o","n","f","l","i","c","t","s">>

NO_CONFLICTS_DETECTED == <<"N","o"," ","c","o","n","f","l","i","c","t","s"," ","d","e","t",
                           "e","c","t","e","d",","," ","p","r","o","c","e","e","d","i","n",
                           "g"," ","w","i","t","h"," ","c","r","e","a","t","i","o","n">>

\* the value returned on a decline (agent.py:400)
CANCELLED_MESSAGE == <<"E","v","e","n","t"," ","c","r","e","a","t","i","o","n"," ","c",
                       "a","n","c","e","l","l","e","d"," ","b","y"," ","u","s","e","r",
                       " ","d","u","e"," ","t","o"," ","s","c","h","e","d","u","l","i",
                       "n","g"," ","c","o","n","f","l","i","c","t","s",".">>

\* user_decision with the override message in both cases
user_decision_AlwaysConfirmed(r) == USER_CONFIRMED

\* user_decision argument of format_phase2_prompt (agent.py:409-413)
user_decision(r) ==
    IF r.needs_user_decision THEN USER_CONFIRMED ELSE NO_CONFLICTS_DETECTED

\* phase-2 options built with the creation prompt of the one-shot mode
Phase2SystemPrompt_CreationOnly == SYSTEM_PROMPT

\* system prompt of the phase-2 options (agent.py:445-453)
Phase2SystemPrompt == INTERACTIVE_SYSTEM_PROMPT

\* system prompt chosen by process_events (agent.py:289-293); custom is the
\* stored custom prompt, <<>> when none is configured
Phase1SystemPrompt(isInteractive, custom) ==
    IF isInteractive THEN INTERACTIVE_SYSTEM_PROMPT
    ELSE IF custom # <<>> THEN custom[1] ELSE SYSTEM_PROMPT

(***************************************************************************)
(* Response formatter (gcallm/formatter.py).  What is printed to the       *)
(* console is a sequence of entries <<kind, title, body>>.                 *)
(***************************************************************************)
\* the glyphs of formatter.py:100, 199
CHECKMARK == <<"U+2705">>

WARNING_SIGN == <<"U+26A0","U+FE0F">>

\* the literal prefix of the link pattern (formatter.py:131, 146, 148)
GOOGLE_CALENDAR_URL == <<"h","t","t","p","s",":","/","/","w","w","w",".","g","o","o","g",
                         "l","e",".","c","o","m","/","c","a","l","e","n","d","a","r">>

\* the tail [^\s\)]* of the link pattern
RECURSIVE UrlTail(_)
UrlTail(s) ==
    IF s = <<>> \/ IsSpace(Head(s)) \/ Head(s) = ")" THEN <<>>
    ELSE <<Head(s)>> \o UrlTail(Tail(s))

\* a link search that abridges a match longer than 70 characters
SearchCalendarUrl_Abridged(s) ==
    LET i == FindFirst(s, GOOGLE_CALENDAR_URL)
        url == GOOGLE_CALENDAR_URL
               \o UrlTail(SubSeq(s, i + Len(GOOGLE_CALENDAR_URL), Len(s)))
    IN  IF i = 0 THEN <<>>
        ELSE IF Len(url) > 70 THEN <<SubSeq(url, 1, 67) \o <<".",".",".">>>>
        ELSE <<url>>

\* re.search(r"https://www\.google\.com/calendar[^\s\)]*", s): <<>> when
\* there is no match, else <<match.group(0)>>
SearchCalendarUrl(s) ==
    LET i == FindFirst(s, GOOGLE_CALENDAR_URL)
    IN  IF i = 0 THEN <<>>
        ELSE <<GOOGLE_CALENDAR_URL
               \o UrlTail(SubSeq(s, i + Len(GOOGLE_CALENDAR_URL), Len(s)))>>

\* current_event = {}: a key that is not set is <<>>
EmptyEvent == [title |-> <<>>, datetime |-> <<>>, description |-> <<>>, link |-> <<>>]

\* a bullet scan that tests for the time keywords before the labels
ScanBullet_KeywordsFirst(ev, line) ==
    LET content == Strip(SubSeq(line, 3, Len(line)))
    IN  IF Contains(content, <<"E","v","e","r","y"," ","d","a","y">>) \/ Contains(content, <<"a","t">>)
        THEN [ev EXCEPT !.datetime = <<Strip(RemoveAll(content, << <<"*","*">> >>))>>]
        ELSE IF Contains(content, <<"E","v","e","n","t"," ","L","i","n","k",":">>) \/ Contains(content, <<"L","i","n","k",":">>)
        THEN IF SearchCalendarUrl(content) # <<>>
             THEN [ev EXCEPT !.link = SearchCalendarUrl(content)]
             ELSE ev
        ELSE LET title_text == Strip(RemoveAll(content, << <<"*","*">> >>))
             IN  IF title_text # <<>> /\ ev.title = <<>>
                 THEN [ev EXCEPT !.title = <<title_text>>]
                 ELSE ev

\* a bullet scan in which a later title replaces the one already set
ScanBullet_LastTitleWins(ev, line) ==
    LET content == Strip(SubSeq(line, 3, Len(line)))
    IN  IF Contains(content, <<"D","a","t","e"," ","&"," ","T","i","m","e",":">>) \/ Contains(content, <<"*","*","D","a","t","e"," ","&"," ","T","i","m","e",":","*","*">>)
        THEN [ev EXCEPT !.datetime =
                  <<Strip(RemoveAll(content, << <<"*","*","D","a","t","e"," ","&"," ","T","i","m","e",":","*","*">>, <<"*","*">> >>))>>]
        ELSE IF Contains(content, <<"D","e","s","c","r","i","p","t","i","o","n",":">>)
        THEN [ev EXCEPT !.description =
                  <<Strip(RemoveAll(content, << <<"*","*","D","e","s","c","r","i","p","t","i","o","n",":","*","*">>, <<"*","*">> >>))>>]
        ELSE IF Contains(content, <<"E","v","e","n","t"," ","L","i","n","k",":">>) \/ Contains(content, <<"L","i","n","k",":">>)
        THEN IF SearchCalendarUrl(content) # <<>>
             THEN [ev EXCEPT !.link = SearchCalendarUrl(content)]
             ELSE ev
        ELSE IF Contains(content, <<"E","v","e","r","y"," ","d","a","y">>) \/ Contains(content, <<"a","t">>)
        THEN [ev EXCEPT !.datetime = <<Strip(RemoveAll(content, << <<"*","*">> >>))>>]
        ELSE LET title_text == Strip(RemoveAll(content, << <<"*","*">> >>))
             IN  IF title_text # <<>>
                 THEN [ev EXCEPT !.title = <<title_text>>]
                 ELSE ev

\* the branches of a "- **" line (formatter.py:113-143)
ScanBullet(ev, line) ==
    LET content == Strip(SubSeq(line, 3, Len(line)))
    IN  IF Contains(content, <<"D","a","t","e"," ","&"," ","T","i","m","e",":">>) \/ Contains(content, <<"*","*","D","a","t","e"," ","&"," ","T","i","m","e",":","*","*">>)
        THEN [ev EXCEPT !.datetime =
                  <<Strip(RemoveAll(content, << <<"*","*","D","a","t","e"," ","&"," ","T","i","m","e",":","*","*">>, <<"*","*">> >>))>>]
        ELSE IF Contains(content, <<"D","e","s","c","r","i","p","t","i","o","n",":">>)
        THEN [ev EXCEPT !.description =
                  <<Strip(RemoveAll(content, << <<"*","*","D","e","s","c","r","i","p","t","i","o","n",":","*","*">>, <<"*","*">> >>))>>]
        ELSE IF Contains(content, <<"E","v","e","n","t"," ","L","i","n","k",":">>) \/ Contains(content, <<"L","i","n","k",":">>)
        THEN IF SearchCalendarUrl(content) # <<>>
             THEN [ev EXCEPT !.link = SearchCalendarUrl(content)]
             ELSE ev
        ELSE IF Contains(content, <<"E","v","e","r","y"," ","d","a","y">>) \/ Contains(content, <<"a","t">>)
        THEN [ev EXCEPT !.datetime = <<Strip(RemoveAll(content, << <<"*","*">> >>))>>]
        ELSE LET title_text == Strip(RemoveAll(content, << <<"*","*">> >>))
             IN  IF title_text # <<>> /\ ev.title = <<>>
                 THEN [ev EXCEPT !.title = <<title_text>>]
                 ELSE ev

\* one iteration of the scan (formatter.py:105-151)
ScanLine(ev, rawline) ==
    LET line == Strip(rawline)
    IN  IF line = <<>> \/ StartsWith(line, <<"I","'","l","l">>) \/ StartsWith(line, <<"N","o","w"," ","I","'","l","l">>)
        THEN ev
        ELSE IF StartsWith(line, <<"-"," ","*","*">>)
        THEN ScanBullet(ev, line)
        ELSE IF Contains(line, GOOGLE_CALENDAR_URL)
        THEN IF SearchCalendarUrl(line) # <<>>
             THEN [ev EXCEPT !.link = SearchCalendarUrl(line)]
             ELSE ev
        ELSE ev

\* for line in lines: ...   (formatter.py:102-151)
RECURSIVE ScanLines(_, _)
ScanLines(ev, lines) ==
    IF lines = <<>> THEN ev ELSE ScanLines(ScanLine(ev, Head(lines)), Tail(lines))

\* the rows of the event table (formatter.py:161-184)
EventRows(ev) ==
    (IF ev.title # <<>>
     THEN << <<"Event:", <<"[","b","o","l","d"," ","g","r","e","e","n","]">> \o ev.title[1] \o <<"[","/","b","o","l","d"," ","g","r","e","e","n","]">>>> >>
     ELSE <<>>)
    \o (IF ev.datetime # <<>> THEN << <<"When:", ev.datetime[1]>> >> ELSE <<>>)
    \o (IF ev.description # <<>> THEN << <<"Details:", ev.description[1]>> >> ELSE <<>>)
    \o (IF ev.link # <<>>
        THEN << <<"Link:", <<"[","l","i","n","k","=">> \o ev.link[1] \o <<"]">> \o ev.link[1] \o <<"[","/","l","i","n","k","]">>>> >>
        ELSE <<>>)

\* the lines kept for the note panel (formatter.py:204-217)
RECURSIVE WarningLines(_, _)
WarningLines(lines, capture) ==
    IF lines = <<>> THEN <<>>
    ELSE LET line == Head(lines)
             cap == capture \/ Contains(line, WARNING_SIGN) \/ Contains(line, <<"N","o","t","e",":">>)
             clean_line == Strip(RemoveAll(RemoveAll(Strip(line), <<WARNING_SIGN>>),
                                           << <<"*","*","N","o","t","e",":","*","*">> >>))
         IN  (IF cap /\ clean_line # <<>> /\ ~StartsWith(clean_line, CHECKMARK)
              THEN <<clean_line>> ELSE <<>>)
             \o WarningLines(Tail(lines), cap)

\* the note panel (formatter.py:197-230)
NotePanel(response, lines) ==
    IF \/ Contains(response, WARNING_SIGN)
       \/ Contains(response, <<"N","o","t","e",":">>)
       \/ Contains(Lower(response), <<"c","o","n","f","l","i","c","t">>)
    THEN LET warning_lines == WarningLines(lines, FALSE)
         IN  IF warning_lines # <<>>
             THEN << <<"Panel", "Note",
                       JoinLines(SubSeq(warning_lines, 1,
                                        IF Len(warning_lines) < 5
                                        THEN Len(warning_lines) ELSE 5))>> >>
             ELSE <<>>
    ELSE <<>>

\* a formatter that scans for fields whether or not the reply reports success
format_event_response_AlwaysParses(response) ==
    LET lines == SplitLines(Strip(response))
        current_event == ScanLines(EmptyEvent, lines)
    IN  IF current_event # EmptyEvent
        THEN << <<"Panel", "Event Created Successfully", EventRows(current_event)>> >>
             \o NotePanel(response, lines)
        ELSE << <<"Markdown", "", response>> >>

\* format_event_response (formatter.py:89-238): what it prints
format_event_response(response) ==
    LET lines == SplitLines(Strip(response))
        success == Contains(response, CHECKMARK) \/ Contains(response, <<"C","r","e","a","t","e","d">>)
        current_event == IF success THEN ScanLines(EmptyEvent, lines) ELSE EmptyEvent
    IN  IF success /\ current_event # EmptyEvent
        THEN << <<"Panel", "Event Created Successfully", EventRows(current_event)>> >>
             \o NotePanel(response, lines)
        ELSE << <<"Markdown", "", response>> >>

(***************************************************************************)
(* The response stream of the external agent (claude_agent_sdk)            *)
(***************************************************************************)
TextBlock(t) == [kind |-> "TextBlock", text |-> t, name |-> ""]

ToolUseBlock(n) == [kind |-> "ToolUseBlock", text |-> <<>>, name |-> n]

ToolResultBlock == [kind |-> "ToolResultBlock", text |-> <<>>, name |-> ""]

AssistantMessage(content) == [type |-> "AssistantMessage", content |-> content]

ResultMessage == [type |-> "ResultMessage", content |-> <<>>]

\* replies in the tag-delimited format of INTERACTIVE_SYSTEM_PROMPT
\* (agent.py:72-122, tests/test_conflicts.py:13-80), without the layout
XML_IMPORTANT ==
    <<"<","s","t","a","t","u","s",">","i","m","p","o","r","t","a","n",
      "t","_","c","o","n","f","l","i","c","t","s","<","/","s","t","a",
      "t","u","s",">","<","u","s","e","r","_","d","e","c","i","s","i",
      "o","n","_","r","e","q","u","i","r","e","d",">","t","r","u","e",
      "<","/","u","s","e","r","_","d","e","c","i","s","i","o","n","_",
      "r","e","q","u","i","r","e","d",">">>

XML_MINOR ==
    <<"<","s","t","a","t","u","s",">","m","i","n","o","r","_","c","o",
      "n","f","l","i","c","t","s","<","/","s","t","a","t","u","s",">",
      "<","u","s","e","r","_","d","e","c","i","s","i","o","n","_","r",
      "e","q","u","i","r","e","d",">","f","a","l","s","e","<","/","u",
      "s","e","r","_","d","e","c","i","s","i","o","n","_","r","e","q",
      "u","i","r","e","d",">">>

XML_NONE ==
    <<"<","s","t","a","t","u","s",">","n","o","_","c","o","n","f","l",
      "i","c","t","s","<","/","s","t","a","t","u","s",">","<","u","s",
      "e","r","_","d","e","c","i","s","i","o","n","_","r","e","q","u",
      "i","r","e","d",">","f","a","l","s","e","<","/","u","s","e","r",
      "_","d","e","c","i","s","i","o","n","_","r","e","q","u","i","r",
      "e","d",">">>

\* messages the agent may stream in answer to the phase-1 query
Phase1Msgs ==
    { AssistantMessage(<<TextBlock(AWAIT_USER_DECISION)>>),
      AssistantMessage(<<TextBlock(<<"I","M","P","O","R","T","A","N","T"," ","C","O","N","F","L","I",
                                     "C","T","S">>), TextBlock(<<" ","D","E","T","E","C","T","E","D">>)>>),
      AssistantMessage(<<TextBlock(<<"C","H","E","C","K",":"," ","M","I","N","O","R"," ","C","O","N",
                                     "F","L","I","C","T","S">>)>>),
      AssistantMessage(<<ToolUseBlock("mcp__google-calendar__get-freebusy"),
                         TextBlock(<<"C","H","E","C","K",":"," ","N","O"," ","C","O","N","F","L","I",
                                     "C","T","S">>)>>),
      AssistantMessage(<<TextBlock(XML_IMPORTANT)>>),
      AssistantMessage(<<TextBlock(XML_MINOR)>>),
      AssistantMessage(<<TextBlock(XML_NONE)>>),
      AssistantMessage(<<TextBlock(<<"S","o","r","r","y","?">>)>>),
      ResultMessage }

\* messages the agent may stream in answer to a creation query
Phase2Msgs ==
    { AssistantMessage(<<ToolUseBlock("mcp__google-calendar__create-event"),
                         ToolResultBlock>>),
      AssistantMessage(<<TextBlock(<<"C","r","e","a","t","e","d"," ","1"," ","e","v","e","n","t","(",
                                     "s",")">>)>>),
      ResultMessage }

\* the streaming loop body of process_events / process_events_interactive
\* (agent.py:344-351, 462-468): texts appended to response_text
RECURSIVE BlockTexts(_)
BlockTexts(content) ==
    IF content = <<>> THEN <<>>
    ELSE (IF Head(content).kind = "TextBlock" THEN <<Head(content).text>> ELSE <<>>)
         \o BlockTexts(Tail(content))

\* ... and the "Using tool: <name>" lines printed to the console
RECURSIVE BlockPrints(_)
BlockPrints(content) ==
    IF content = <<>> THEN <<>>
    ELSE (IF Head(content).kind = "ToolUseBlock"
          THEN << <<"Using tool: ", Head(content).name>> >> ELSE <<>>)
         \o BlockPrints(Tail(content))

\* a loop that also takes a text from the blocks that are not text blocks
MsgTexts_EveryBlock(msg) ==
    IF msg.type = "AssistantMessage"
    THEN [i \in 1..Len(msg.content) |->
              IF msg.content[i].kind = "TextBlock" THEN msg.content[i].text
              ELSE <<"[","t","o","o","l","]">>]
    ELSE <<>>

MsgTexts(msg) ==
    IF msg.type = "AssistantMessage" THEN BlockTexts(msg.content) ELSE <<>>

MsgPrints(msg) ==
    IF msg.type = "AssistantMessage" THEN BlockPrints(msg.content) ELSE <<>>

(***************************************************************************)
(* Inputs of a top-level request                                           *)
(***************************************************************************)
UserInputs == { <<"L","u","n","c","h"," ","T","u","e"," ","1","2","p","m">> }

ScreenshotPathLists == { <<>>, << <<"/","d","/","a",".","p","n","g">>, <<"/","d","/","b",".","p","n","g">> >> }

CustomPrompts == { <<>>, <<CUSTOM_SYSTEM_PROMPT>> }

\* OutputFormat (cli.py:29-33)
OutputFormats == {"rich", "json"}

\* the parsed command line of `gcallm add ...` (cli.py:92-122) and of the
\* default command (cli.py:39-55); an absent description is <<>>, and
\* screenshot_count is 1 for --screenshot, N for --screenshots N, 0 for neither
Argv(command, event_description, clipboard, screenshot_count, isInteractive, output_format) ==
    [command |-> command,
     event_description |-> event_description,
     clipboard |-> clipboard,
     screenshot_count |-> screenshot_count,
     interactive |-> isInteractive,
     output_format |-> output_format]

\* the locals of the command: None is <<>>, a value v is <<v>>; reads lists
\* the input sources get_input has read, in order, with what each gave
Locals(event_description, paths, input, reads) ==
    [event_description |-> event_description,
     screenshot_paths |-> paths,
     user_input |-> input,
     reads |-> reads]

\* what an input source holds when it is consulted
Source(kind, content) == [kind |-> kind, content |-> content]

\* sys.stdin: a terminal, or a pipe with its content (input.py:17-21)
Stdins ==
    { Source("tty", <<>>), Source("piped", <<"D","i","n","n","e","r"," ","F","r","i"," ","7","p","m","\n">>), Source("piped", <<" ","\n">>) }

\* pbpaste: its stdout, or a failure (input.py:30-45)
Clipboards ==
    { Source("ok", <<" ","G","y","m"," ","S","a","t"," ","9","a","m","\n">>), Source("ok", <<>>),
      Source("CalledProcessError", <<>>) }

\* the prompt written to the temporary file (input.py:69-72)
EDITOR_TEMPLATE ==
    <<"\n","\n","\n","#"," ","E","n","t","e","r"," ","y","o","u","r"," ",
      "e","v","e","n","t"," ","d","e","s","c","r","i","p","t","i","o",
      "n"," ","a","b","o","v","e","\n","#"," ","L","i","n","e","s"," ",
      "s","t","a","r","t","i","n","g"," ","w","i","t","h"," ","#"," ",
      "w","i","l","l"," ","b","e"," ","i","g","n","o","r","e","d","\n",
      "#"," ","S","a","v","e"," ","a","n","d"," ","q","u","i","t"," ",
      "t","o"," ","c","r","e","a","t","e"," ","e","v","e","n","t","s",
      "\n">>

\* the editor session: the file as saved, a non-zero exit, or Ctrl-C while
\* the editor is open (input.py:75-93)
Editors ==
    { Source("saved", <<"C","a","l","l"," ","M","o","m"," ","S","u","n"," ","5","p","m",
                        "\n"," ","#"," ","t","e","n","t","a","t","i","v","e">> \o EDITOR_TEMPLATE),
      Source("saved", EDITOR_TEMPLATE),
      Source("CalledProcessError", <<>>),
      Source("KeyboardInterrupt", <<>>) }

Env(stdin, clipboard, editor) == [stdin |-> stdin, clipboard |-> clipboard, editor |-> editor]

\* an environment that offers no input
QuietEnv == Env(Source("tty", <<>>), Source("ok", <<>>), Source("saved", EDITOR_TEMPLATE))

(***************************************************************************)
(* State                                                                   *)
(***************************************************************************)
VARIABLES
    pc,                     \* position of the request in CalendarAgent.run
    interactive,            \* run(interactive=...)
    user_input,             \* run(user_input=...)
    screenshot_paths,       \* run(screenshot_paths=...), <<>> for None
    captured_tool_results,  \* CalendarAgent.captured_tool_results
    options,                \* ClaudeAgentOptions of the open client, <<>> if none
    response_text,          \* response_text of the running phase
    received,               \* messages consumed from the running stream
    report,                 \* <<ConflictReport>> once phase 1 is parsed
    confirm_asked,          \* calls of Confirm.ask
    should_proceed,         \* <<answer>> once the operator answered
    sent,                   \* client.query calls, in order
    result,                 \* <<value returned by run>>
    console,                \* lines and panels printed
    cmd_pc,                 \* position of the command that drives the agent
    argv,                   \* the parsed command line
    env,                    \* what stdin, the clipboard and the editor hold
    locals,                 \* the locals of add_command / default_command
    exit_code,              \* <<>> while the command runs, else <<code>>
    filesystem,             \* the files that exist: path -> content
    edit,                   \* the editor session of open_editor and its caller
    returned,               \* what earlier calls of run on this agent returned
    sys_argv,               \* sys.argv[1:] of the process
    extracted               \* <<what the reply extractors returned>>, <<>> before

vars == <<pc, interactive, user_input, screenshot_paths, captured_tool_results,
          options, response_text, received, report, confirm_asked,
          should_proceed, sent, result, console, cmd_pc, argv, env, locals, exit_code,
          filesystem, edit, returned, sys_argv, extracted>>

\* the file system, the editor session and the raw command line
hostVars == <<filesystem, edit, sys_argv, extracted>>

\* the state of the command around the agent run
cliVars == <<cmd_pc, argv, env, locals, exit_code, filesystem, edit, sys_argv,
             extracted>>

\* the state of the agent run
agentVars == <<pc, interactive, user_input, screenshot_paths, captured_tool_results,
               options, response_text, received, report, confirm_asked,
               should_proceed, sent, result, returned>>

\* no file that a command creates exists yet
NoFiles == [p \in {} |-> <<>>]

\* the locals of open_editor and of the command that called it: None is <<>>
EditSession(caller, at, file_path, edit_path, editor, pending, custom_prompt) ==
    [caller |-> caller, pc |-> at, file_path |-> file_path,
     edit_path |-> edit_path, editor |-> editor, pending |-> pending,
     custom_prompt |-> custom_prompt]

\* what open_editor is about to return or raise
Pending(kind, value) == [kind |-> kind, value |-> value]

\* no editor session is in progress
HostIdle ==
    /\ filesystem = NoFiles
    /\ edit = EditSession("none", "idle", <<>>, <<>>, "", Pending("", <<>>), <<>>)
    /\ sys_argv = <<>>
    /\ extracted = <<>>

\* the agent before CalendarAgent.__init__ (agent.py:214-225) and run
AgentInit ==
    /\ pc = "idle"
    /\ interactive = FALSE
    /\ user_input = <<>>
    /\ screenshot_paths = <<>>
    /\ captured_tool_results = <<>>
    /\ options = <<>>
    /\ response_text = <<>>
    /\ received = 0
    /\ report = <<>>
    /\ confirm_asked = 0
    /\ should_proceed = <<>>
    /\ sent = <<>>
    /\ result = <<>>
    /\ returned = <<>>

\* `gcallm add <description> [--screenshots 2] [-i] [--output-format f]` has
\* acquired its input and is about to call create_events (cli.py:202-208)
Init ==
    /\ AgentInit
    /\ console = <<>>
    /\ cmd_pc = "create_events"
    /\ exit_code = <<>>
    /\ HostIdle
    /\ \E u \in UserInputs, p \in ScreenshotPathLists, i \in BOOLEAN, f \in OutputFormats :
           /\ argv = Argv("add", <<u>>, FALSE, Len(p), i, f)
           /\ locals = Locals(<<u>>, p, <<u>>, <<>>)
    /\ env = QuietEnv

\* ClaudeAgentOptions(...) (agent.py:313-321, 445-453)
ClaudeAgentOptions(prompt, paths) ==
    [system_prompt |-> prompt,
     max_turns |-> 10,
     add_dirs |-> IF paths # <<>> THEN <<"~/Desktop">> ELSE <<>>]

\* one client.query call as it is logged in sent
Query(phase, opts, prompt) ==
    [phase |-> phase, system_prompt |-> opts.system_prompt, prompt |-> prompt]

(***************************************************************************)
(* CalendarAgent.run -> process_events (agent.py:472-502, 258-335)         *)
(***************************************************************************)
\* a value run returned to its caller; `shared` says that its tool_results
\* is still the list object that self.captured_tool_results names
Returned(text, tool_results, shared) ==
    [text |-> text, tool_results |-> tool_results, shared |-> shared]

\* self.captured_tool_results = [] (agent.py:275) binds a new list: no list
\* returned earlier is the agent's list any more
Rebound(rs) ==
    [k \in 1..Len(rs) |-> Returned(rs[k].text, rs[k].tool_results, FALSE)]

\* self.captured_tool_results.append(r) (agent.py:254) is seen through every
\* reference to the list object
AppendedInPlace(rs, r) ==
    [k \in 1..Len(rs) |->
        IF rs[k].shared
        THEN Returned(rs[k].text, Append(rs[k].tool_results, r), TRUE)
        ELSE rs[k]]

\* a run that keeps the results captured by the request before
Run_KeepsCaptured(isInteractive, input, paths, custom) ==
    /\ pc = "idle"
    /\ pc' = "phase1_open"
    /\ interactive' = isInteractive
    /\ user_input' = input
    /\ screenshot_paths' = paths
    /\ captured_tool_results' = captured_tool_results
    /\ options' = <<ClaudeAgentOptions(Phase1SystemPrompt(isInteractive, custom), paths)>>
    /\ response_text' = <<>>
    /\ received' = 0
    /\ returned' = returned
    /\ UNCHANGED <<report, confirm_asked, should_proceed, sent, result, console>>
    /\ UNCHANGED cliVars

\* run is called; process_events resets the captured results, chooses the
\* system prompt and builds the options, up to the opening of the client
Run(isInteractive, input, paths, custom) ==
    /\ pc = "idle"
    /\ pc' = "phase1_open"
    /\ interactive' = isInteractive
    /\ user_input' = input
    /\ screenshot_paths' = paths
    /\ captured_tool_results' = <<>>
    /\ options' = <<ClaudeAgentOptions(Phase1SystemPrompt(isInteractive, custom), paths)>>
    /\ response_text' = <<>>
    /\ received' = 0
    /\ returned' = Rebound(returned)
    /\ UNCHANGED <<report, confirm_asked, should_proceed, sent, result, console>>
    /\ UNCHANGED cliVars

\* async with ClaudeSDKClient(...): await client.query(full_prompt)
\* (agent.py:339-341)
Phase1Query ==
    /\ pc = "phase1_open"
    /\ pc' = "phase1_stream"
    /\ sent' = Append(sent, Query(1, options[1],
                                  full_prompt(user_input, screenshot_paths, interactive)))
    /\ UNCHANGED <<interactive, user_input, screenshot_paths, captured_tool_results,
                   options, response_text, received, report, confirm_asked,
                   should_proceed, result, console>>
    /\ UNCHANGED returned
    /\ UNCHANGED cliVars

\* one iteration of `async for msg in client.receive_response()` in phase 1
\* (agent.py:344-351)
Phase1Receive(msg) ==
    /\ pc = "phase1_stream"
    /\ received < MaxMsgs
    /\ received' = received + 1
    /\ response_text' = response_text \o MsgTexts(msg)
    /\ console' = console \o MsgPrints(msg)
    /\ UNCHANGED <<pc, interactive, user_input, screenshot_paths,
                   captured_tool_results, options, report, confirm_asked,
                   should_proceed, sent, result>>
    /\ UNCHANGED returned
    /\ UNCHANGED cliVars

\* display_conflict_report (interaction.py:13-40)
display_conflict_report(r) ==
    IF r.is_important
    THEN << <<"Scheduling Conflicts Detected">> >>
    ELSE << <<"Event Analysis">> >>

\* the phase-1 stream is exhausted: process_events returns (agent.py:353-356).
\* The non-interactive run returns it; process_events_interactive parses and
\* displays the report and either calls ask_user_to_proceed, which blocks in
\* Confirm.ask, or builds the phase-2 options (agent.py:385-453)
Phase1End ==
    /\ pc = "phase1_stream"
    /\ LET text == Join(response_text)
           r == from_response(text)
       IN  IF ~interactive
           THEN /\ pc' = "done"
                /\ result' = <<[text |-> text, tool_results |-> captured_tool_results]>>
                /\ options' = <<>>
                /\ UNCHANGED <<report, confirm_asked, console>>
           ELSE /\ report' = <<r>>
                /\ result' = result
                /\ IF r.needs_user_decision
                   THEN /\ pc' = "ask"
                        /\ confirm_asked' = confirm_asked + 1
                        /\ options' = <<>>
                        /\ console' = console \o display_conflict_report(r)
                   ELSE /\ pc' = "phase2_open"
                        /\ confirm_asked' = confirm_asked
                        /\ options' = <<ClaudeAgentOptions(Phase2SystemPrompt,
                                                           screenshot_paths)>>
                        /\ console' = console \o display_conflict_report(r)
    /\ UNCHANGED <<interactive, user_input, screenshot_paths, captured_tool_results,
                   response_text, received, should_proceed, sent>>
    /\ UNCHANGED returned
    /\ UNCHANGED cliVars

\* ask_user_to_proceed whose caller goes on to phase 2 whatever the answer
ask_user_to_proceed_IgnoresDecline(proceed) ==
    /\ pc = "ask"
    /\ should_proceed' = <<proceed>>
    /\ pc' = "phase2_open"
    /\ console' = console \o << <<"Proceeding with event creation...">> >>
    /\ result' = result
    /\ options' = <<ClaudeAgentOptions(Phase2SystemPrompt, screenshot_paths)>>
    /\ UNCHANGED <<interactive, user_input, screenshot_paths, captured_tool_results,
                   response_text, received, report, confirm_asked, sent>>
    /\ UNCHANGED returned
    /\ UNCHANGED cliVars

\* Confirm.ask returns (interaction.py:64-73); on a decline
\* process_events_interactive returns the cancellation message
\* (agent.py:397-400), otherwise it builds the phase-2 options
ask_user_to_proceed(proceed) ==
    /\ pc = "ask"
    /\ should_proceed' = <<proceed>>
    /\ IF ~proceed
       THEN /\ pc' = "cancelled"
            /\ console' = console \o << <<"Event creation cancelled.">> >>
            /\ result' = <<[text |-> CANCELLED_MESSAGE,
                            tool_results |-> captured_tool_results]>>
            /\ options' = options
       ELSE /\ pc' = "phase2_open"
            /\ console' = console \o << <<"Proceeding with event creation...">> >>
            /\ result' = result
            /\ options' = <<ClaudeAgentOptions(Phase2SystemPrompt, screenshot_paths)>>
    /\ UNCHANGED <<interactive, user_input, screenshot_paths, captured_tool_results,
                   response_text, received, report, confirm_asked, sent>>
    /\ UNCHANGED returned
    /\ UNCHANGED cliVars

\* a phase-2 query that is sent again while the client is open
Phase2Query_Resend ==
    /\ pc = "phase2_open"
    /\ pc' = IF \E i \in 1..Len(sent) : sent[i].phase = 2
             THEN "phase2_stream" ELSE "phase2_open"
    /\ sent' = Append(sent, Query(2, options[1],
                   format_phase2_prompt(user_decision(report[1]), user_input,
                                        screenshot_paths)))
    /\ response_text' = <<>>
    /\ received' = 0
    /\ UNCHANGED <<interactive, user_input, screenshot_paths, captured_tool_results,
                   options, report, confirm_asked, should_proceed, result, console>>
    /\ UNCHANGED returned
    /\ UNCHANGED cliVars

\* async with ClaudeSDKClient(...): await client.query(phase2_prompt)
\* (agent.py:406-416, 455-459)
Phase2Query ==
    /\ pc = "phase2_open"
    /\ pc' = "phase2_stream"
    /\ sent' = Append(sent, Query(2, options[1],
                   format_phase2_prompt(user_decision(report[1]), user_input,
                                        screenshot_paths)))
    /\ response_text' = <<>>
    /\ received' = 0
    /\ UNCHANGED <<interactive, user_input, screenshot_paths, captured_tool_results,
                   options, report, confirm_asked, should_proceed, result, console>>
    /\ UNCHANGED returned
    /\ UNCHANGED cliVars

\* one iteration of the phase-2 streaming loop (agent.py:462-468)
Phase2Receive(msg) ==
    /\ pc = "phase2_stream"
    /\ received < MaxMsgs
    /\ received' = received + 1
    /\ response_text' = response_text \o MsgTexts(msg)
    /\ console' = console \o MsgPrints(msg)
    /\ UNCHANGED <<pc, interactive, user_input, screenshot_paths,
                   captured_tool_results, options, report, confirm_asked,
                   should_proceed, sent, result>>
    /\ UNCHANGED returned
    /\ UNCHANGED cliVars

\* the phase-2 stream is exhausted: process_events_interactive returns the
\* joined text and run wraps it (agent.py:470, 495-498)
Phase2End ==
    /\ pc = "phase2_stream"
    /\ pc' = "done"
    /\ result' = <<[text |-> Join(response_text),
                    tool_results |-> captured_tool_results]>>
    /\ options' = <<>>
    /\ UNCHANGED <<interactive, user_input, screenshot_paths, captured_tool_results,
                   response_text, received, report, confirm_asked, should_proceed,
                   sent, console>>
    /\ UNCHANGED returned
    /\ UNCHANGED cliVars

\* the agent exchange raises while a client is being opened or read; nothing
\* in agent.py catches it, so it leaves run
AgentError ==
    /\ pc \in {"phase1_open", "phase1_stream", "phase2_open", "phase2_stream"}
    /\ pc' = "raised"
    /\ options' = <<>>
    /\ UNCHANGED <<interactive, user_input, screenshot_paths, captured_tool_results,
                   response_text, received, report, confirm_asked, should_proceed,
                   sent, result, console>>
    /\ UNCHANGED returned
    /\ UNCHANGED cliVars

(***************************************************************************)
(* The post-tool-use hook (agent.py:227-256)                               *)
(***************************************************************************)
\* a tool_response: None, a str or a dict with its items
NoneResponse == [type |-> "NoneType", text |-> <<>>, items |-> <<>>]

StrResponse(s) == [type |-> "str", text |-> s, items |-> <<>>]

DictResponse(d) == [type |-> "dict", text |-> <<>>, items |-> d]

\* bool(tool_response)
Truthy(r) ==
    CASE r.type = "NoneType" -> FALSE
      [] r.type = "str" -> r.text # <<>>
      [] r.type = "dict" -> DOMAIN r.items # {}

HookInput(tool_name, tool_response) ==
    [tool_name |-> tool_name, tool_response |-> tool_response]

CREATE_EVENT_TOOL == "mcp__google-calendar__create-event"

\* what the SDK may hand to the hook after a tool ran
HookInputs ==
    { HookInput(CREATE_EVENT_TOOL,
                DictResponse([event_id |-> <<"a","b","c","1","2","3">>, summary |-> <<"T","e","a","m"," ","M","e","e","t","i","n","g">>])),
      HookInput(CREATE_EVENT_TOOL, DictResponse([event_id |-> <<"a","b","c","1","2","3">>])),
      HookInput(CREATE_EVENT_TOOL, DictResponse(<<>>)),
      HookInput(CREATE_EVENT_TOOL, StrResponse(<<"c","r","e","a","t","e","d">>)),
      HookInput(CREATE_EVENT_TOOL, NoneResponse),
      HookInput("mcp__google-calendar__list-events",
                DictResponse([event_id |-> <<"a","b","c","1","2","3">>, summary |-> <<"T","e","a","m"," ","M","e","e","t","i","n","g">>])) }

\* a capture that does not look at the name of the tool
Capturable_AnyTool(hook_input) ==
    /\ Truthy(hook_input.tool_response)
    /\ hook_input.tool_response.type = "dict"
    /\ "event_id" \in DOMAIN hook_input.tool_response.items
    /\ "summary" \in DOMAIN hook_input.tool_response.items

\* the condition of agent.py:247-254
Capturable(hook_input) ==
    /\ hook_input.tool_name = CREATE_EVENT_TOOL
    /\ Truthy(hook_input.tool_response)
    /\ hook_input.tool_response.type = "dict"
    /\ "event_id" \in DOMAIN hook_input.tool_response.items
    /\ "summary" \in DOMAIN hook_input.tool_response.items

\* _post_tool_use_hook (agent.py:243-256), called while a response stream is
\* being read
post_tool_use_hook(hook_input) ==
    /\ pc \in {"phase1_stream", "phase2_stream"}
    /\ captured_tool_results' =
           IF Capturable(hook_input)
           THEN Append(captured_tool_results, hook_input.tool_response)
           ELSE captured_tool_results
    /\ returned' =
           IF Capturable(hook_input)
           THEN AppendedInPlace(returned, hook_input.tool_response)
           ELSE returned
    /\ UNCHANGED <<pc, interactive, user_input, screenshot_paths, options,
                   response_text, received, report, confirm_asked, should_proceed,
                   sent, result, console>>
    /\ UNCHANGED cliVars

\* the hook fires during a run of the command
PostToolUseHook(hook_input) ==
    /\ Len(captured_tool_results) < MaxToolResults
    /\ post_tool_use_hook(hook_input)

(***************************************************************************)
(* The command around the agent run (cli.py, agent.py:505-563)             *)
(***************************************************************************)
\* format_error (formatters.py:9-23)
format_error(error_msg) ==
    << <<"Panel", "Error", <<"[","r","e","d","]">> \o error_msg \o <<"[","/","r","e","d","]">>>> >>

\* format_no_input_warning (formatters.py:26-41)
format_no_input_warning ==
    << <<"No input provided">>, <<"Usage:">>,
       <<"  gcallm \"Meeting tomorrow at 3pm\"  # Direct input">>,
       <<"  gcallm --clipboard                  # From clipboard">>,
       <<"  pbpaste | gcallm                    # From stdin">>,
       <<"  gcallm                              # Open editor">> >>

\* str(e) of the error the agent exchange raises
AGENT_ERROR == <<"C","o","n","n","e","c","t","i","o","n"," ","f","a","i","l","e",
                 "d">>

(***************************************************************************)
(* Input acquisition (helpers/input.py, screenshot.py, cli.py:139-200)     *)
(***************************************************************************)
\* a value that `not v` takes for absent: None or the empty string
Falsy(opt) == opt = <<>> \/ opt[1] = <<>>

\* get_from_stdin (input.py:11-21)
get_from_stdin(stdin) ==
    IF stdin.kind = "piped"
    THEN LET content == Strip(stdin.content)
         IN  IF content # <<>> THEN <<content>> ELSE <<>>
    ELSE <<>>

\* get_from_clipboard (input.py:24-45)
get_from_clipboard(clipboard) ==
    IF clipboard.kind = "ok"
    THEN LET content == Strip(clipboard.content)
         IN  IF content # <<>> THEN <<content>> ELSE <<>>
    ELSE <<>>

\* open_editor (input.py:75-93): the saved file without its comment and
\* blank lines; a failed or interrupted editor gives None
open_editor(editor) ==
    IF editor.kind = "saved"
    THEN LET lines == SelectSeq(SplitLines(editor.content),
                                LAMBDA line : /\ Strip(line) # <<>>
                                              /\ ~StartsWith(Strip(line), <<"#">>))
             res == Strip(JoinLines(lines))
         IN  IF res # <<>> THEN <<res>> ELSE <<>>
    ELSE <<>>

\* one consultation of an input source
Read(source, outcome) == [source |-> source, outcome |-> outcome]

\* get_input (input.py:111-153): the value it returns and the sources it
\* consulted on the way
get_input(direct_input, use_clipboard, use_editor, e) ==
    IF ~Falsy(direct_input)
    THEN [value |-> <<Strip(direct_input[1])>>, reads |-> <<>>]
    ELSE LET stdin_input == get_from_stdin(e.stdin)
             r1 == <<Read("stdin", e.stdin)>>
         IN  IF stdin_input # <<>>
             THEN [value |-> stdin_input, reads |-> r1]
             ELSE IF use_clipboard
             THEN [value |-> get_from_clipboard(e.clipboard),
                   reads |-> Append(r1, Read("clipboard", e.clipboard))]
             ELSE IF use_editor
             THEN [value |-> open_editor(e.editor),
                   reads |-> Append(r1, Read("editor", e.editor))]
             ELSE [value |-> <<>>, reads |-> r1]

\* Path("~/Desktop").expanduser()
DESKTOP == <<"/","U","s","e","r","s","/","m","e","/","D","e","s","k","t","o",
             "p">>

\* a file of the directory that matches one of the patterns
\* (screenshot.py:32-41)
Screenshot(path, st_mtime) == [path |-> path, st_mtime |-> st_mtime]

\* the directory: missing, without a matching file, or with matching files
Desktops ==
    { [exists |-> FALSE, screenshots |-> {}],
      [exists |-> TRUE, screenshots |-> {}],
      [exists |-> TRUE,
       screenshots |-> { Screenshot(DESKTOP \o <<"/","S","c","r","e","e","n","s","h","o","t"," ","1",".","p","n",
                                                 "g">>, 1) }],
      [exists |-> TRUE,
       screenshots |-> { Screenshot(DESKTOP \o <<"/","S","c","r","e","e","n","s","h","o","t"," ","1",".","p","n",
                                                 "g">>, 1),
                         Screenshot(DESKTOP \o <<"/","B","i","l","d","s","c","h","i","r","m","f","o","t","o"," ",
                                                 "2",".","p","n","g">>, 2) }] }

\* screenshots.sort(key=st_mtime, reverse=True) (screenshot.py:54)
RECURSIVE SortNewestFirst(_)
SortNewestFirst(files) ==
    IF files = {} THEN <<>>
    ELSE LET newest == CHOOSE f \in files : \A g \in files : g.st_mtime <= f.st_mtime
         IN  <<newest.path>> \o SortNewestFirst(files \ {newest})

CLAUDE_FALLBACK_INSTRUCTION == <<"C","L","A","U","D","E","_","F","A","L","L","B","A","C","K","_",
                                 "I","N","S","T","R","U","C","T","I","O","N">>

\* the message of the ValueError (screenshot.py:45-51)
NoScreenshotsMessage ==
    <<"N","o"," ","s","c","r","e","e","n","s","h","o","t","s"," ","f",
      "o","u","n","d"," ","i","n"," ">> \o DESKTOP \o <<"."," ">>
    \o CLAUDE_FALLBACK_INSTRUCTION \o <<":"," ","T","h","e"," ","s","c","r","e","e","n","s","h","o","t",
                                        " ","p","a","t","t","e","r","n"," ","m","a","t","c","h","i","n",
                                        "g"," ","f","a","i","l","e","d","."," ">>
    \o <<"P","l","e","a","s","e"," ","m","a","n","u","a","l","l","y"," ",
         "l","i","s","t"," ","a","l","l"," ",".","p","n","g"," ","f","i",
         "l","e","s"," ","i","n"," ">> \o DESKTOP
    \o <<","," ","s","o","r","t"," ","b","y"," ","m","o","d","i","f","i",
         "c","a","t","i","o","n"," ","t","i","m","e",","," ">>
    \o <<"a","n","d"," ","s","e","l","e","c","t"," ","t","h","e"," ","m",
         "o","s","t"," ","r","e","c","e","n","t"," ","f","i","l","e","(",
         "s",")"," ","t","h","a","t"," ","a","p","p","e","a","r"," ","t",
         "o"," ","b","e"," ","s","c","r","e","e","n","s","h","o","t","s",
         "."," ">>
    \o <<"U","s","e"," ","t","h","o","s","e"," ","p","a","t","h","s"," ",
         "t","o"," ","r","e","a","d"," ","t","h","e"," ","i","m","a","g",
         "e","s"," ","a","n","d"," ","e","x","t","r","a","c","t"," ","e",
         "v","e","n","t"," ","i","n","f","o","r","m","a","t","i","o","n",
         ".">>

\* a lookup that treats a missing directory like a directory without
\* screenshots
find_recent_screenshots_MissingIsEmpty(count, desktop) ==
    IF ~desktop.exists \/ desktop.screenshots = {}
    THEN [raised |-> "ValueError", message |-> NoScreenshotsMessage, paths |-> <<>>]
    ELSE LET sorted == SortNewestFirst(desktop.screenshots)
         IN  [raised |-> "", message |-> <<>>,
              paths |-> SubSeq(sorted, 1, IF count < Len(sorted) THEN count
                                          ELSE Len(sorted))]

\* find_recent_screenshots (screenshot.py:6-56): what it raises, or the paths
find_recent_screenshots(count, desktop) ==
    IF ~desktop.exists
    THEN [raised |-> "FileNotFoundError",
          message |-> <<"D","i","r","e","c","t","o","r","y"," ","n","o","t"," ","f","o",
                        "u","n","d",":"," ">> \o DESKTOP, paths |-> <<>>]
    ELSE IF desktop.screenshots = {}
    THEN [raised |-> "ValueError", message |-> NoScreenshotsMessage, paths |-> <<>>]
    ELSE LET sorted == SortNewestFirst(desktop.screenshots)
         IN  [raised |-> "", message |-> <<>>,
              paths |-> SubSeq(sorted, 1, IF count < Len(sorted) THEN count
                                          ELSE Len(sorted))]

\* error_msg.split("CLAUDE_FALLBACK_INSTRUCTION")[0].strip() (cli.py:159)
UserMessage(error_msg) ==
    Strip(SubSeq(error_msg, 1, FindFirst(error_msg, CLAUDE_FALLBACK_INSTRUCTION) - 1))

\* the command raises typer.Exit(code=1) inside its try block: typer.Exit is
\* a RuntimeError, so the handler of cli.py:219-221 prints the panel for
\* str(e) = "" and raises typer.Exit(code=1) again
ExitInsideTry == format_error(<<>>)

\* add_command up to the call of get_input (cli.py:140-181): the screenshot
\* count is taken from the flags and the screenshots are looked up
FindScreenshots(desktop) ==
    /\ cmd_pc = "start"
    /\ argv.command = "add"
    /\ LET found == find_recent_screenshots(argv.screenshot_count, desktop)
       IN  IF argv.screenshot_count = 0
           THEN /\ cmd_pc' = "get_input"
                /\ UNCHANGED <<locals, console, exit_code>>
           ELSE IF found.raised = "FileNotFoundError"
           THEN /\ cmd_pc' = "exited"
                /\ exit_code' = <<1>>
                /\ console' = console \o << <<"[red]Error:[/red] ", found.message>> >>
                                      \o ExitInsideTry
                /\ UNCHANGED locals
           ELSE IF found.raised = "ValueError"
           THEN IF Contains(found.message, CLAUDE_FALLBACK_INSTRUCTION)
                THEN /\ cmd_pc' = "get_input"
                     /\ console' = console \o
                            << <<"[yellow]Warning:[/yellow] ", UserMessage(found.message)>>,
                               <<"Pattern matching failed - screenshot localization issue detected.">>,
                               <<"Claude will attempt to manually find your screenshots...">> >>
                     /\ locals' =
                            IF Falsy(locals.event_description)
                            THEN [locals EXCEPT !.event_description =
                                     <<<<"S","c","r","e","e","n","s","h","o","t"," ","p","a","t","t","e",
                                         "r","n"," ","e","r","r","o","r",":"," ">> \o found.message>>]
                            ELSE locals
                     /\ UNCHANGED exit_code
                ELSE /\ cmd_pc' = "exited"
                     /\ exit_code' = <<1>>
                     /\ console' = console \o
                            << <<"[red]Error:[/red] ", found.message>>,
                               <<"Take a screenshot and try again.">> >>
                            \o ExitInsideTry
                     /\ UNCHANGED locals
           ELSE /\ cmd_pc' = "get_input"
                /\ locals' = [locals EXCEPT !.screenshot_paths = found.paths]
                /\ UNCHANGED <<console, exit_code>>
    /\ UNCHANGED <<argv, env>>
    /\ UNCHANGED agentVars
    /\ UNCHANGED hostVars

\* use_editor (cli.py:184 for add, cli.py:59-62 for the default command)
UseEditor ==
    /\ Falsy(locals.event_description)
    /\ ~argv.clipboard
    /\ IF argv.command = "add"
       THEN locals.screenshot_paths = <<>>
       ELSE env.stdin.kind # "piped"

\* user_input = get_input(...) (cli.py:187-191, 65-69)
GetInput ==
    /\ \/ cmd_pc = "get_input"
       \/ cmd_pc = "start" /\ argv.command = "default"
    /\ cmd_pc' = "check_input"
    /\ LET got == get_input(locals.event_description, argv.clipboard, UseEditor, env)
       IN  locals' = [locals EXCEPT !.user_input = got.value, !.reads = got.reads]
    /\ UNCHANGED <<argv, env, console, exit_code>>
    /\ UNCHANGED agentVars
    /\ UNCHANGED hostVars

\* the default input for a request with screenshots only (cli.py:200)
ANALYZE_SCREENSHOTS == <<"P","l","e","a","s","e"," ","a","n","a","l","y","z","e"," ","t",
                         "h","e"," ","s","c","r","e","e","n","s","h","o","t","(","s",")",
                         " ","a","n","d"," ","c","r","e","a","t","e"," ","c","a","l","e",
                         "n","d","a","r"," ","e","v","e","n","t","s",".">>

\* a command that goes on without any input
CheckInput_NeverWarns ==
    /\ cmd_pc = "check_input"
    /\ cmd_pc' = "create_events"
    /\ locals' = IF Falsy(locals.user_input)
                 THEN [locals EXCEPT !.user_input = <<ANALYZE_SCREENSHOTS>>]
                 ELSE locals
    /\ UNCHANGED <<argv, env, console, exit_code>>
    /\ UNCHANGED agentVars
    /\ UNCHANGED hostVars

\* the checks between get_input and create_events (cli.py:193-200, 71-73)
CheckInput ==
    /\ cmd_pc = "check_input"
    /\ IF Falsy(locals.user_input) /\ locals.screenshot_paths = <<>>
       THEN /\ cmd_pc' = "exited"
            /\ exit_code' = <<1>>
            /\ console' = console \o format_no_input_warning \o ExitInsideTry
            /\ UNCHANGED locals
       ELSE /\ cmd_pc' = "create_events"
            /\ locals' = IF Falsy(locals.user_input)
                         THEN [locals EXCEPT !.user_input = <<ANALYZE_SCREENSHOTS>>]
                         ELSE locals
            /\ UNCHANGED <<console, exit_code>>
    /\ UNCHANGED <<argv, env>>
    /\ UNCHANGED agentVars
    /\ UNCHANGED hostVars

\* create_events up to the agent run (agent.py:530-548): the agent is
\* constructed and the preview panel printed
create_events ==
    /\ cmd_pc = "create_events"
    /\ cmd_pc' = "agent_run"
    /\ LET paths == locals.screenshot_paths
           input_preview ==
               locals.user_input[1]
               \o (IF paths # <<>>
                   THEN <<"\n","[","d","i","m","]","+"," ">> \o IntToStr(Len(paths)) \o <<" ","s","c","r","e","e","n","s","h","o","t","(","s",")","[","/",
                                                                  "d","i","m","]">>
                   ELSE <<>>)
       IN  console' = Append(console,
               <<"Panel",
                 IF argv.interactive THEN "Analyzing events" ELSE "Creating events from",
                 <<"[","c","y","a","n","]">> \o input_preview \o <<"[","/","c","y","a","n","]">>>>)
    /\ UNCHANGED <<argv, env, locals, exit_code>>
    /\ UNCHANGED agentVars
    /\ UNCHANGED hostVars

\* agent.run(user_input, screenshot_paths=..., interactive=...)
\* (agent.py:552-555)
AgentRun(custom) ==
    /\ cmd_pc = "agent_run"
    /\ Run(argv.interactive, locals.user_input[1], locals.screenshot_paths, custom)

\* the operator presses Ctrl-C while the agent run is in progress or is
\* waiting in Confirm.ask; nothing in agent.py catches KeyboardInterrupt
KeyboardInterrupt ==
    /\ pc \in {"phase1_open", "phase1_stream", "ask", "phase2_open", "phase2_stream"}
    /\ pc' = "interrupted"
    /\ options' = <<>>
    /\ UNCHANGED <<interactive, user_input, screenshot_paths, captured_tool_results,
                   response_text, received, report, confirm_asked, should_proceed,
                   sent, result, console>>
    /\ UNCHANGED returned
    /\ UNCHANGED cliVars

\* agent.run has returned: create_events hands back the text of the result
\* (agent.py:557-563) and the command displays it and returns
\* (cli.py:210-214, 80-81)
Display ==
    /\ cmd_pc = "agent_run"
    /\ pc \in {"done", "cancelled"}
    /\ cmd_pc' = "exited"
    /\ exit_code' = <<0>>
    /\ LET text == result[1].text
       IN  console' = console \o
               (IF argv.command = "add" /\ argv.output_format = "json"
                THEN << <<"JSON", "", text>> >>
                ELSE format_event_response(text))
    /\ UNCHANGED <<argv, env, locals>>
    /\ UNCHANGED agentVars
    /\ UNCHANGED hostVars

\* an exception handler that reports the failure but returns normally
HandleException_ExitsZero ==
    /\ cmd_pc = "agent_run"
    /\ pc = "raised"
    /\ cmd_pc' = "exited"
    /\ exit_code' = <<0>>
    /\ console' = console \o format_error(AGENT_ERROR)
    /\ UNCHANGED <<argv, env, locals>>
    /\ UNCHANGED agentVars
    /\ UNCHANGED hostVars

\* except Exception as e (cli.py:219-221, 86-88)
HandleException ==
    /\ cmd_pc = "agent_run"
    /\ pc = "raised"
    /\ cmd_pc' = "exited"
    /\ exit_code' = <<1>>
    /\ console' = console \o format_error(AGENT_ERROR)
    /\ UNCHANGED <<argv, env, locals>>
    /\ UNCHANGED agentVars
    /\ UNCHANGED hostVars

\* except KeyboardInterrupt (cli.py:216-218, 83-85)
HandleKeyboardInterrupt ==
    /\ cmd_pc = "agent_run"
    /\ pc = "interrupted"
    /\ cmd_pc' = "exited"
    /\ exit_code' = <<130>>
    /\ console' = Append(console, <<"Cancelled by user">>)
    /\ UNCHANGED <<argv, env, locals>>
    /\ UNCHANGED agentVars
    /\ UNCHANGED hostVars

Next ==
    \/ create_events
    \/ \E c \in CustomPrompts : AgentRun(c)
    \/ \E h \in HookInputs : PostToolUseHook(h)
    \/ KeyboardInterrupt
    \/ Display
    \/ HandleException
    \/ HandleKeyboardInterrupt
    \/ Phase1Query
    \/ \E m \in (IF interactive THEN Phase1Msgs ELSE Phase2Msgs) : Phase1Receive(m)
    \/ Phase1End
    \/ \E b \in BOOLEAN : ask_user_to_proceed(b)
    \/ Phase2Query
    \/ \E m \in Phase2Msgs : Phase2Receive(m)
    \/ Phase2End
    \/ AgentError

Spec == Init /\ [][Next]_vars

(***************************************************************************)
(* The whole command, from the parsed command line to the exit code        *)
(***************************************************************************)
\* gcallm add [description] [-c] [-s | --screenshots 2] [-i], and
\* gcallm [description] [-c] [-i]
CliArgvs ==
    { Argv("add", d, c, n, i, "rich") :
          d \in { <<>>, <<<<"L","u","n","c","h"," ","T","u","e"," ","1","2","p","m">>>>, <<<<" "," ">>>> },
          c \in BOOLEAN, n \in 0..2, i \in BOOLEAN }
    \cup { Argv("default", d, c, 0, i, "rich") :
               d \in { <<>>, <<<<"L","u","n","c","h"," ","T","u","e"," ","1","2","p","m">>>>, <<<<" "," ">>>> },
               c \in BOOLEAN, i \in BOOLEAN }

Envs == { Env(s, c, e) : s \in Stdins, c \in Clipboards, e \in Editors }

\* the messages the agent streams back in the runs of the whole command
CliPhase1Msgs ==
    { AssistantMessage(<<TextBlock(AWAIT_USER_DECISION)>>),
      AssistantMessage(<<ToolUseBlock("mcp__google-calendar__get-freebusy"),
                         TextBlock(<<"C","H","E","C","K",":"," ","N","O"," ","C","O","N","F","L","I",
                                     "C","T","S">>)>>) }

CliPhase2Msgs == { AssistantMessage(<<TextBlock(<<"C","r","e","a","t","e","d"," ","1"," ","e","v","e","n","t","(",
                                                  "s",")">>)>>) }

\* the command starts (cli.py:36-55, 139)
InitCli ==
    /\ AgentInit
    /\ console = <<>>
    /\ cmd_pc = "start"
    /\ exit_code = <<>>
    /\ HostIdle
    /\ argv \in CliArgvs
    /\ env \in Envs
    /\ locals = Locals(argv.event_description, <<>>, <<>>, <<>>)

NextCli ==
    \/ \E d \in Desktops : FindScreenshots(d)
    \/ GetInput
    \/ CheckInput
    \/ create_events
    \/ AgentRun(<<>>)
    \/ \E h \in HookInputs : PostToolUseHook(h)
    \/ KeyboardInterrupt
    \/ Display
    \/ HandleException
    \/ HandleKeyboardInterrupt
    \/ Phase1Query
    \/ \E m \in (IF interactive THEN CliPhase1Msgs ELSE CliPhase2Msgs) : Phase1Receive(m)
    \/ Phase1End
    \/ \E b \in BOOLEAN : ask_user_to_proceed(b)
    \/ Phase2Query
    \/ \E m \in CliPhase2Msgs : Phase2Receive(m)
    \/ Phase2End
    \/ AgentError

SpecCli == InitCli /\ [][NextCli]_vars

(***************************************************************************)
(* The editor session: open_editor step by step, called by get_input       *)
(* without a path and by `config prompt` / `prompt` with their own         *)
(* temporary file                                                          *)
(***************************************************************************)
\* a file of the operator that no command is given
NOTES == "/Users/me/notes.txt"

\* tf.name of the NamedTemporaryFile of open_editor (input.py:64-67)
EDITOR_TEMP == "/tmp/tmp_editor.txt"

\* tf.name of the NamedTemporaryFile of the prompt commands (cli.py:474-480)
PROMPT_TEMP == "/tmp/tmp_prompt.txt"

\* the lines written after the prompt (cli.py:476-479, 559-562)
PROMPT_TEMPLATE ==
    <<"\n","\n","#"," ","E","d","i","t"," ","t","h","e"," ","s","y","s",
      "t","e","m"," ","p","r","o","m","p","t"," ","a","b","o","v","e",
      "\n","#"," ","L","i","n","e","s"," ","s","t","a","r","t","i","n",
      "g"," ","w","i","t","h"," ","#"," ","w","i","l","l"," ","b","e",
      " ","i","g","n","o","r","e","d","\n","#"," ","S","a","v","e"," ",
      "a","n","d"," ","q","u","i","t"," ","t","o"," ","u","p","d","a",
      "t","e"," ","t","h","e"," ","p","r","o","m","p","t","\n">>

\* the opening words of SYSTEM_PROMPT (agent.py:19), which stand for its text
SYSTEM_PROMPT_TEXT == <<"Y","o","u"," ","a","r","e"," ","a"," ","c","a","l","e","n","d",
                        "a","r"," ","a","s","s","i","s","t","a","n","t",".">>

\* get_custom_system_prompt(): nothing stored, or the stored text
StoredPrompts == { <<>>, <<<<"A","l","w","a","y","s"," ","a","d","d"," ","a"," ","r","e","m",
                             "i","n","d","e","r",".">>>> }

\* what the editor process does: saves the file, exits with a non-zero
\* status, cannot be started, is interrupted, or replaces the file away
EditorSessions ==
    Editors \cup { Source("FileNotFoundError", <<>>), Source("removed", <<>>) }

\* the files with `path` written
WriteFile(fs, path, content) ==
    [p \in DOMAIN fs \cup {path} |-> IF p = path THEN content ELSE fs[p]]

\* the files after path.unlink()
Unlink(fs, path) == [p \in DOMAIN fs \ {path} |-> fs[p]]

\* Path.exists()
Exists(fs, path) == path \in DOMAIN fs

\* the start of `gcallm config prompt` and `gcallm prompt` (cli.py:471-480,
\* 554-563): the current prompt is written to a new temporary file
WritePromptFile ==
    /\ edit.pc = "start"
    /\ edit.caller \in {"config", "prompt"}
    /\ LET current_prompt == IF edit.custom_prompt # <<>> /\ edit.custom_prompt[1] # <<>>
                             THEN edit.custom_prompt[1] ELSE SYSTEM_PROMPT_TEXT
       IN  filesystem' = WriteFile(filesystem, PROMPT_TEMP, current_prompt \o PROMPT_TEMPLATE)
    /\ edit' = [edit EXCEPT !.pc = "call", !.file_path = <<PROMPT_TEMP>>]
    /\ console' = console \o << <<"[cyan]Opening editor to customize system prompt...[/cyan]">> >>
    /\ UNCHANGED <<sys_argv, extracted, cmd_pc, argv, env, locals, exit_code>>
    /\ UNCHANGED agentVars

\* open_editor up to the try (input.py:57-73): the given path is used, or a
\* temporary file is created with the template
open_editor_begin ==
    /\ edit.pc = "call"
    /\ IF edit.file_path # <<>>
       THEN /\ edit' = [edit EXCEPT !.pc = "editor", !.edit_path = edit.file_path]
            /\ UNCHANGED filesystem
       ELSE /\ edit' = [edit EXCEPT !.pc = "editor", !.edit_path = <<EDITOR_TEMP>>]
            /\ filesystem' = WriteFile(filesystem, EDITOR_TEMP, EDITOR_TEMPLATE)
    /\ UNCHANGED <<sys_argv, extracted, cmd_pc, argv, env, locals, exit_code, console>>
    /\ UNCHANGED agentVars

\* subprocess.run([editor, str(edit_path)], check=True) (input.py:77) and
\* the handler of input.py:92-93
open_editor_run(editor) ==
    /\ edit.pc = "editor"
    /\ IF editor.kind = "saved"
       THEN /\ filesystem' = WriteFile(filesystem, edit.edit_path[1], editor.content)
            /\ edit' = [edit EXCEPT !.pc = "read", !.editor = editor.kind]
       ELSE IF editor.kind = "removed"
       THEN /\ filesystem' = Unlink(filesystem, edit.edit_path[1])
            /\ edit' = [edit EXCEPT !.pc = "read", !.editor = editor.kind]
       ELSE IF editor.kind \in {"CalledProcessError", "KeyboardInterrupt"}
       THEN /\ edit' = [edit EXCEPT !.pc = "finally", !.editor = editor.kind,
                                    !.pending = Pending("return", <<>>)]
            /\ UNCHANGED filesystem
       ELSE /\ edit' = [edit EXCEPT !.pc = "finally", !.editor = editor.kind,
                                    !.pending = Pending("raise", <<<<"F","i","l","e","N","o","t","F","o","u","n","d","E","r","r","o",
                                                                     "r">>>>)]
            /\ UNCHANGED filesystem
    /\ UNCHANGED <<sys_argv, extracted, cmd_pc, argv, env, locals, exit_code, console>>
    /\ UNCHANGED agentVars

\* content = edit_path.read_text() and the filter (input.py:80-90)
open_editor_read ==
    /\ edit.pc = "read"
    /\ edit' = [edit EXCEPT
                  !.pc = "finally",
                  !.pending =
                      IF Exists(filesystem, edit.edit_path[1])
                      THEN Pending("return",
                                   open_editor(Source("saved", filesystem[edit.edit_path[1]])))
                      ELSE Pending("raise", <<<<"F","i","l","e","N","o","t","F","o","u","n","d","E","r","r","o",
                                                "r">>>>)]
    /\ UNCHANGED <<filesystem, sys_argv, extracted, cmd_pc, argv, env, locals, exit_code, console>>
    /\ UNCHANGED agentVars

\* an open_editor that removes its temporary file only after the content was
\* read
open_editor_finally_OnSuccessOnly ==
    /\ edit.pc = "finally"
    /\ filesystem' = IF /\ edit.file_path = <<>>
                        /\ Exists(filesystem, edit.edit_path[1])
                        /\ edit.editor = "saved"
                     THEN Unlink(filesystem, edit.edit_path[1])
                     ELSE filesystem
    /\ edit' = [edit EXCEPT !.pc = IF edit.pending.kind = "return" THEN "returned"
                                   ELSE "raised"]
    /\ UNCHANGED <<sys_argv, extracted, cmd_pc, argv, env, locals, exit_code, console>>
    /\ UNCHANGED agentVars

\* the finally block of open_editor (input.py:94-97), after which the
\* function returns or the exception leaves it
open_editor_finally ==
    /\ edit.pc = "finally"
    /\ filesystem' = IF edit.file_path = <<>> /\ Exists(filesystem, edit.edit_path[1])
                     THEN Unlink(filesystem, edit.edit_path[1])
                     ELSE filesystem
    /\ edit' = [edit EXCEPT !.pc = IF edit.pending.kind = "return" THEN "returned"
                                   ELSE "raised"]
    /\ UNCHANGED <<sys_argv, extracted, cmd_pc, argv, env, locals, exit_code, console>>
    /\ UNCHANGED agentVars

\* the rest of `config prompt` / `prompt` after open_editor(temp_path)
\* (cli.py:488-507 and 514-520, 571-599): the prompt is saved unless the
\* editor gave nothing, the finally block removes the temporary file, and an
\* exception of open_editor ends the command with the error panel and code 1
PromptCommandEnd ==
    /\ edit.pc \in {"returned", "raised"}
    /\ edit.caller \in {"config", "prompt"}
    /\ filesystem' = IF Exists(filesystem, PROMPT_TEMP)
                     THEN Unlink(filesystem, PROMPT_TEMP)
                     ELSE filesystem
    /\ LET new_prompt == edit.pending.value
       IN  IF edit.pc = "raised"
           THEN /\ console' = console \o format_error(edit.pending.value[1])
                /\ exit_code' = <<1>>
                /\ edit' = [edit EXCEPT !.pc = "exited"]
           ELSE IF new_prompt = <<>> \/ Strip(new_prompt[1]) = <<>>
           THEN /\ console' = console \o
                       << <<IF edit.caller = "config"
                            THEN "[yellow]Prompt editing cancelled[/yellow]"
                            ELSE "[yellow]No changes made[/yellow]">> >>
                /\ exit_code' = <<0>>
                /\ edit' = [edit EXCEPT !.pc = "exited"]
           ELSE /\ console' = console \o
                       << <<IF edit.caller = "config"
                            THEN "[green]OK[/green] System prompt updated"
                            ELSE "[green]OK[/green] Custom system prompt saved">> >>
                /\ exit_code' = <<0>>
                /\ edit' = [edit EXCEPT !.pc = "exited", !.custom_prompt = new_prompt]
    /\ UNCHANGED <<sys_argv, extracted, cmd_pc, argv, env, locals>>
    /\ UNCHANGED agentVars

\* the file system before the command: empty, or with the operator's notes
FileSystems ==
    { NoFiles, WriteFile(NoFiles, NOTES, <<"b","u","y"," ","m","i","l","k">>) }

\* get_input is about to call open_editor(), or a prompt command starts
InitEdit ==
    /\ AgentInit
    /\ console = <<>>
    /\ cmd_pc = "start"
    /\ exit_code = <<>>
    /\ env = QuietEnv
    /\ filesystem \in FileSystems
    /\ sys_argv = <<>>
    /\ extracted = <<>>
    /\ \E caller \in {"get_input", "config", "prompt"}, custom \in StoredPrompts :
           /\ argv = Argv(IF caller = "get_input" THEN "add" ELSE caller,
                          <<>>, FALSE, 0, FALSE, "rich")
           /\ locals = Locals(<<>>, <<>>, <<>>, <<>>)
           /\ edit = EditSession(caller,
                                 IF caller = "get_input" THEN "call" ELSE "start",
                                 <<>>, <<>>, "", Pending("", <<>>), custom)

NextEdit ==
    \/ WritePromptFile
    \/ open_editor_begin
    \/ \E e \in EditorSessions : open_editor_run(e)
    \/ open_editor_read
    \/ open_editor_finally
    \/ PromptCommandEnd

SpecEdit == InitEdit /\ [][NextEdit]_vars

(***************************************************************************)
(* Several requests on one CalendarAgent: run is called again after it     *)
(* returned (agent.py:472-502)                                             *)
(***************************************************************************)
\* what the SDK hands to the hook during request n: the calendar server
\* gives every created event an id of its own
RequestHookInputs(n) ==
    { HookInput(CREATE_EVENT_TOOL,
                DictResponse([event_id |-> IntToStr(n), summary |-> <<"T","e","a","m"," ","M","e","e","t","i","n","g">>])),
      HookInput(CREATE_EVENT_TOOL, NoneResponse) }

\* the number of the request that is running or will run next
RequestNumber == Len(returned) + 1

\* run returns (agent.py:495-502): the caller keeps the dict, whose
\* tool_results is the agent's list object, and the locals of the call are
\* gone
ReturnToCaller ==
    /\ pc \in {"done", "cancelled"}
    /\ Len(returned) < MaxRequests
    /\ returned' = Append(returned,
                          Returned(result[1].text, result[1].tool_results, TRUE))
    /\ pc' = "idle"
    /\ result' = <<>>
    /\ report' = <<>>
    /\ should_proceed' = <<>>
    /\ response_text' = <<>>
    /\ received' = 0
    /\ options' = <<>>
    /\ UNCHANGED <<interactive, user_input, screenshot_paths, captured_tool_results,
                   confirm_asked, sent, console>>
    /\ UNCHANGED cliVars

\* agent.run(user_input, interactive=...) on the agent that served the
\* earlier requests
RunRequest(isInteractive) ==
    /\ Len(returned) < MaxRequests
    /\ \E u \in UserInputs : Run(isInteractive, u, <<>>, <<>>)

\* a CalendarAgent has been constructed (agent.py:214-225)
InitRequests ==
    /\ AgentInit
    /\ console = <<>>
    /\ cmd_pc = "agent_run"
    /\ exit_code = <<>>
    /\ HostIdle
    /\ env = QuietEnv
    /\ \E u \in UserInputs :
           /\ argv = Argv("add", <<u>>, FALSE, 0, FALSE, "rich")
           /\ locals = Locals(<<u>>, <<>>, <<u>>, <<>>)

NextRequests ==
    \/ \E i \in BOOLEAN : RunRequest(i)
    \/ \E h \in RequestHookInputs(RequestNumber) : PostToolUseHook(h)
    \/ Phase1Query
    \/ \E m \in (IF interactive THEN CliPhase1Msgs ELSE CliPhase2Msgs) :
           received < MaxRequestMsgs /\ Phase1Receive(m)
    \/ Phase1End
    \/ \E b \in BOOLEAN : ask_user_to_proceed(b)
    \/ Phase2Query
    \/ \E m \in CliPhase2Msgs : received < MaxRequestMsgs /\ Phase2Receive(m)
    \/ Phase2End
    \/ AgentError
    \/ ReturnToCaller

SpecRequests == InitRequests /\ [][NextRequests]_vars

(***************************************************************************)
(* The entry point: main, the head of default_command, and Typer's         *)
(* dispatch to the registered commands (cli.py:603-631, 36-55)             *)
(***************************************************************************)
\* the first arguments main hands to Typer (cli.py:615-626)
MAIN_KNOWN ==
    { <<"v","e","r","i","f","y">>, <<"s","t","a","t","u","s">>, <<"c","a","l","e","n","d","a","r","s">>, <<"a","d","d">>, <<"s","e","t","u","p">>, <<"p","r","o","m","p","t">>,
      <<"-","-","h","e","l","p">>, <<"-","h">>, <<"-","-","i","n","s","t","a","l","l","-","c","o","m","p","l","e",
                          "t","i","o","n">>, <<"-","-","s","h","o","w","-","c","o","m","p","l","e","t","i","o",
                                                   "n">> }

\* known_commands of default_command (cli.py:42)
known_commands ==
    { <<"v","e","r","i","f","y">>, <<"s","t","a","t","u","s">>, <<"c","a","l","e","n","d","a","r","s">>, <<"a","d","d">>, <<"s","e","t","u","p">>, <<"c","o","n","f","i","g">>, <<"p","r","o","m","p","t">> }

\* the commands registered with @app.command (cli.py:91, 224, 276, 304,
\* 332, 386, 523)
AppCommands ==
    { <<"a","d","d">>, <<"v","e","r","i","f","y">>, <<"s","t","a","t","u","s">>, <<"c","a","l","e","n","d","a","r","s">>, <<"s","e","t","u","p">>, <<"c","o","n","f","i","g">>, <<"p","r","o","m","p","t">> }

\* the name of a registered command as argv.command holds it
CommandName(arg) ==
    CASE arg = <<"a","d","d">> -> "add"
      [] arg = <<"v","e","r","i","f","y">> -> "verify"
      [] arg = <<"s","t","a","t","u","s">> -> "status"
      [] arg = <<"c","a","l","e","n","d","a","r","s">> -> "calendars"
      [] arg = <<"s","e","t","u","p">> -> "setup"
      [] arg = <<"c","o","n","f","i","g">> -> "config"
      [] arg = <<"p","r","o","m","p","t">> -> "prompt"
      [] OTHER -> "none"

\* x in args
InArgs(args, x) == \E k \in 1..Len(args) : args[k] = x

\* " ".join(parts)
RECURSIVE JoinSpace(_)
JoinSpace(parts) ==
    IF parts = <<>> THEN <<>>
    ELSE IF Len(parts) = 1 THEN parts[1]
    ELSE parts[1] \o <<" ">> \o JoinSpace(Tail(parts))

\* " ".join([arg for arg in args if not arg.startswith("-")]) or None
\* (cli.py:47-55)
DescriptionOf(args) ==
    LET words == SelectSeq(args, LAMBDA arg : ~StartsWith(arg, <<"-">>))
        text == JoinSpace(words)
    IN  IF text = <<>> THEN <<>> ELSE <<text>>

\* the command lines of the invocations
SysArgvs ==
    { <<>>,
      << <<"a","d","d">>, <<"L","u","n","c","h"," ","T","u","e"," ","1","2","p","m">> >>, << <<"a","d","d">>, <<"-","s">> >>, << <<"a","d","d">>, <<"-","c">>, <<"-","i">> >>,
      << <<"v","e","r","i","f","y">> >>, << <<"s","t","a","t","u","s">> >>, << <<"c","a","l","e","n","d","a","r","s">> >>, << <<"s","e","t","u","p">> >>,
      << <<"c","o","n","f","i","g">>, <<"s","h","o","w">> >>, << <<"c","o","n","f","i","g">>, <<"p","r","o","m","p","t">> >>,
      << <<"p","r","o","m","p","t">> >>, << <<"p","r","o","m","p","t">>, <<"-","-","r","e","s","e","t">> >>,
      << <<"-","-","h","e","l","p">> >>, << <<"-","h">> >>, << <<"-","-","i","n","s","t","a","l","l","-","c","o","m","p","l","e",
                                         "t","i","o","n">> >>,
      << <<"L","u","n","c","h"," ","T","u","e"," ","1","2","p","m">> >>, << <<"L","u","n","c","h">>, <<"T","u","e">>, <<"1","2","p","m">> >>,
      << <<"-","i">>, <<"L","u","n","c","h"," ","T","u","e"," ","1","2","p","m">> >>, << <<"-","c">> >>, << <<"c","o","n","f","i","g","u","r","e">> >> }

\* main (cli.py:603-631) chooses between default_command and the Typer app
main ==
    /\ cmd_pc = "main"
    /\ cmd_pc' = IF sys_argv = <<>>
                 THEN IF env.stdin.kind = "piped" THEN "default_command" ELSE "app"
                 ELSE IF sys_argv[1] \notin MAIN_KNOWN THEN "default_command"
                 ELSE "app"
    /\ UNCHANGED <<sys_argv, extracted, argv, env, locals, exit_code, console, filesystem, edit>>
    /\ UNCHANGED agentVars

\* the head of default_command (cli.py:39-55): a known command makes it
\* return None, after which main returns; anything else is parsed as the
\* event description and its flags
default_command ==
    /\ cmd_pc = "default_command"
    /\ IF sys_argv # <<>> /\ sys_argv[1] \in known_commands
       THEN /\ cmd_pc' = "exited"
            /\ exit_code' = <<0>>
            /\ UNCHANGED <<argv, locals>>
       ELSE /\ cmd_pc' = "start"
            /\ argv' = Argv("default", DescriptionOf(sys_argv),
                            InArgs(sys_argv, <<"-","-","c","l","i","p","b","o","a","r","d">>) \/ InArgs(sys_argv, <<"-","c">>),
                            0,
                            InArgs(sys_argv, <<"-","-","i","n","t","e","r","a","c","t","i","v","e">>) \/ InArgs(sys_argv, <<"-","i">>),
                            "rich")
            /\ locals' = Locals(DescriptionOf(sys_argv), <<>>, <<>>, <<>>)
            /\ UNCHANGED exit_code
    /\ UNCHANGED <<sys_argv, extracted, env, console, filesystem, edit>>
    /\ UNCHANGED agentVars

\* app() (cli.py:19-25, 614, 631): Typer prints the help for no argument and
\* for --help, serves the completion options, and calls the registered
\* command that the first argument names
app ==
    /\ cmd_pc = "app"
    /\ IF sys_argv = <<>> \/ sys_argv[1] \notin AppCommands
       THEN /\ cmd_pc' = "exited"
            /\ \E code \in {0, 2} : exit_code' = <<code>>
            /\ console' = console \o << <<"Usage: gcallm [OPTIONS] COMMAND [ARGS]...">> >>
            /\ UNCHANGED <<argv, locals>>
       ELSE /\ cmd_pc' = "start"
            /\ LET rest == Tail(sys_argv)
                   description == IF rest # <<>> /\ ~StartsWith(rest[1], <<"-">>)
                                  THEN <<rest[1]>> ELSE <<>>
               IN  /\ argv' = Argv(CommandName(sys_argv[1]), description,
                                   InArgs(rest, <<"-","-","c","l","i","p","b","o","a","r","d">>) \/ InArgs(rest, <<"-","c">>),
                                   IF InArgs(rest, <<"-","-","s","c","r","e","e","n","s","h","o","t">>) \/ InArgs(rest, <<"-","s">>)
                                   THEN 1 ELSE 0,
                                   InArgs(rest, <<"-","-","i","n","t","e","r","a","c","t","i","v","e">>) \/ InArgs(rest, <<"-","i">>),
                                   "rich")
                   /\ locals' = Locals(description, <<>>, <<>>, <<>>)
            /\ UNCHANGED <<exit_code, console>>
    /\ UNCHANGED <<sys_argv, extracted, env, filesystem, edit>>
    /\ UNCHANGED agentVars

\* the process starts
InitMain ==
    /\ AgentInit
    /\ console = <<>>
    /\ cmd_pc = "main"
    /\ exit_code = <<>>
    /\ sys_argv \in SysArgvs
    /\ env \in Envs
    /\ argv = Argv("none", <<>>, FALSE, 0, FALSE, "rich")
    /\ locals = Locals(<<>>, <<>>, <<>>, <<>>)
    /\ filesystem = NoFiles
    /\ edit = EditSession("none", "idle", <<>>, <<>>, "", Pending("", <<>>), <<>>)
    /\ extracted = <<>>

NextMain ==
    \/ main
    \/ default_command
    \/ app

SpecMain == InitMain /\ [][NextMain]_vars

(***************************************************************************)
(* The display of an arbitrary reply: format_event_response applied to     *)
(* replies made of a first line and up to MaxLines further lines           *)
(***************************************************************************)
\* a Google Calendar link as long as the one of
\* tests/test_formatter.py:50-74
LONG_URL ==
    <<"h","t","t","p","s",":","/","/","w","w","w",".","g","o","o","g",
      "l","e",".","c","o","m","/","c","a","l","e","n","d","a","r","/",
      "e","v","e","n","t","?","e","i","d","=","N","z","A","2","a","T",
      "I","2","Z","G","4","5","a","W","1","q","b","n","B","j","Y","m",
      "1","w","a","2","F","y","Y","z","h","p","d","n","M","g","d","3",
      "p","o","d","U","B","j","b","2","x","s","Z","W","d","l","L","m",
      "h","h","c","n","Z","h","c","m","Q","u","Z","W","R","1","&","c",
      "t","z","=","A","m","e","r","i","c","a","/","N","e","w","_","Y",
      "o","r","k">>

FmtHeaders ==
    { <<"U+2705"," ","C","r","e","a","t","e","d"," ","1"," ","e","v","e","n",
        "t",":">>, <<"C","r","e","a","t","e","d">>, <<"U+2705">>, <<"D","o","n","e",".">>, <<>> }

FmtLines ==
    { <<>>,
      <<"-"," ","*","*","T","e","a","m"," ","M","e","e","t","i","n","g",
        "*","*">>,
      <<"-"," ","*","*","C","o","f","f","e","e"," ","C","h","a","t","*",
        "*">>,
      <<"-"," ","*","*","W","o","r","k","s","h","o","p","*","*">>,
      <<"-"," ","*","*","D","a","t","e"," ","&"," ","T","i","m","e",":",
        "*","*"," ","M","o","n","d","a","y"," ","a","t"," ","2",":","0",
        "0"," ","P","M"," ","-"," ","3",":","0","0"," ","P","M"," ","(",
        "E","S","T",")">>,
      <<"-"," ","*","*","E","v","e","n","t"," ","L","i","n","k",":","*",
        "*"," ","h","t","t","p","s",":","/","/","c","a","l",".","e","x",
        "a","m","p","l","e","/","e","?","e","i","d","=","a","b","c","1",
        "2","3">>,
      <<"-"," ","*","*","E","v","e","n","t"," ","L","i","n","k",":","*",
        "*"," ","h","t","t","p","s",":","/","/","w","w","w",".","g","o",
        "o","g","l","e",".","c","o","m","/","c","a","l","e","n","d","a",
        "r","/","e","v","e","n","t","?","e","i","d","=","a","b","c","1",
        "2","3">>,
      <<"-"," ","*","*","E","v","e","n","t"," ","L","i","n","k",":","*",
        "*"," ","[","V","i","e","w"," ","i","n"," ","C","a","l","e","n",
        "d","a","r","]","(">> \o LONG_URL \o <<")">>,
      <<" "," ","h","t","t","p","s",":","/","/","w","w","w",".","g","o",
        "o","g","l","e",".","c","o","m","/","c","a","l","e","n","d","a",
        "r","/","e","v","e","n","t","?","e","i","d","=","x","y","z","7",
        "8","9"," ">>,
      <<"I","'","l","l"," ","s","h","a","r","e"," ","h","t","t","p","s",
        ":","/","/","w","w","w",".","g","o","o","g","l","e",".","c","o",
        "m","/","c","a","l","e","n","d","a","r","/","e","v","e","n","t",
        "?","e","i","d","=","s","k","i","p","1">>,
      <<"U+26A0","U+FE0F"," ","N","o","t","e",":"," ","c","o","n","f","l","i","c",
        "t","s"," ","w","i","t","h"," ","*","*","S","t","a","n","d","u",
        "p","*","*">> }

\* the sequences of at most n lines
RECURSIVE LineSeqs(_)
LineSeqs(n) ==
    IF n = 0 THEN { <<>> }
    ELSE LineSeqs(n - 1)
         \cup { Append(ls, l) : ls \in { s \in LineSeqs(n - 1) : Len(s) = n - 1 },
                                l \in FmtLines }

FmtReplies ==
    { JoinLines(<<h>> \o ls) : h \in FmtHeaders, ls \in LineSeqs(MaxLines) }

\* create_events has returned a reply to `gcallm add "<description>"`
InitFmt ==
    /\ pc = "done"
    /\ interactive = FALSE
    /\ \E u \in UserInputs :
           /\ user_input = u
           /\ argv = Argv("add", <<u>>, FALSE, 0, FALSE, "rich")
           /\ locals = Locals(<<u>>, <<>>, <<u>>, <<>>)
    /\ env = QuietEnv
    /\ screenshot_paths = <<>>
    /\ captured_tool_results = <<>>
    /\ options = <<>>
    /\ response_text = <<>>
    /\ received = 0
    /\ report = <<>>
    /\ confirm_asked = 0
    /\ should_proceed = <<>>
    /\ sent = <<>>
    /\ \E r \in FmtReplies : result = <<[text |-> r, tool_results |-> <<>>]>>
    /\ returned = <<>>
    /\ console = <<>>
    /\ cmd_pc = "agent_run"
    /\ exit_code = <<>>
    /\ HostIdle

NextFmt == Display

SpecFmt == InitFmt /\ [][NextFmt]_vars

(***************************************************************************)
(* Properties of the conflict report parser                                *)
(***************************************************************************)
\* the phase-1 reply has been parsed into a report
Parsed == report # <<>>

Reply == report[1].phase1_response

HasPauseSentinel == Contains(Reply, AWAIT_USER_DECISION)

HasImportantPhrase == Contains(Reply, IMPORTANT_CONFLICTS_DETECTED)

HasMinorPhrase == Contains(Reply, MINOR_CONFLICTS)

ReportIs(hc, imp, nud) ==
    /\ report[1].has_conflicts = hc
    /\ report[1].is_important = imp
    /\ report[1].needs_user_decision = nud

\* C1: every reply that contains the pause sentinel <<AWAIT_USER_DECISION>> is
\* parsed to has_conflicts, is_important and needs_user_decision all true,
\* whatever else the reply contains.
C1_PauseSentinelForcesDecision ==
    (Parsed /\ HasPauseSentinel) => ReportIs(TRUE, TRUE, TRUE)

\* a reply with the sentinel and the minor phrase, without the important phrase
C1_Witness ==
    /\ Parsed
    /\ HasPauseSentinel /\ HasMinorPhrase /\ ~HasImportantPhrase
    /\ ReportIs(TRUE, TRUE, TRUE)

\* C2 as stated: every reply with the minor-conflict phrase and without the
\* pause sentinel is parsed to is_important = false, needs_user_decision =
\* false.
C2_MinorWithoutSentinel_Original ==
    (Parsed /\ HasMinorPhrase /\ ~HasPauseSentinel)
        => (~report[1].is_important /\ ~report[1].needs_user_decision)

\* C2 amended: every reply with the minor-conflict phrase and with neither the
\* pause sentinel nor the important-conflicts phrase is parsed to
\* is_important = false, needs_user_decision = false.
C2_MinorWithoutImportant ==
    (Parsed /\ HasMinorPhrase /\ ~HasPauseSentinel /\ ~HasImportantPhrase)
        => (~report[1].is_important /\ ~report[1].needs_user_decision)

C2_Witness ==
    /\ Parsed
    /\ HasMinorPhrase /\ ~HasPauseSentinel /\ ~HasImportantPhrase
    /\ ReportIs(TRUE, FALSE, FALSE)

C4_ReportStates ==
    Parsed =>
        /\ report[1].needs_user_decision
               => (report[1].has_conflicts /\ report[1].is_important)
        /\ report[1].is_important => report[1].has_conflicts
        /\ \/ ReportIs(FALSE, FALSE, FALSE)
           \/ ReportIs(TRUE, FALSE, FALSE)
           \/ ReportIs(TRUE, TRUE, TRUE)

\* a report in the minor state, from a reply that is not only the phrase
C4_Witness ==
    /\ Parsed
    /\ ReportIs(TRUE, FALSE, FALSE)
    /\ Len(Reply) > Len(<<"C","H","E","C","K",":"," ","M","I","N","O","R"," ","C","O","N",
                          "F","L","I","C","T","S">>)

\* the fields of the tag-delimited reply (agent.py:74, 91, 108)
STATUS_IMPORTANT == <<"<","s","t","a","t","u","s",">","i","m","p","o","r","t","a","n",
                      "t","_","c","o","n","f","l","i","c","t","s","<","/","s","t","a",
                      "t","u","s",">">>

STATUS_MINOR == <<"<","s","t","a","t","u","s",">","m","i","n","o","r","_","c","o",
                  "n","f","l","i","c","t","s","<","/","s","t","a","t","u","s",">">>

DECISION_REQUIRED == <<"<","u","s","e","r","_","d","e","c","i","s","i","o","n","_","r",
                       "e","q","u","i","r","e","d",">","t","r","u","e","<","/","u","s",
                       "e","r","_","d","e","c","i","s","i","o","n","_","r","e","q","u",
                       "i","r","e","d",">">>

DECISION_NOT_REQUIRED == <<"<","u","s","e","r","_","d","e","c","i","s","i","o","n","_","r",
                           "e","q","u","i","r","e","d",">","f","a","l","s","e","<","/","u",
                           "s","e","r","_","d","e","c","i","s","i","o","n","_","r","e","q",
                           "u","i","r","e","d",">">>

NoMarkdownMarker == ~HasPauseSentinel /\ ~HasImportantPhrase /\ ~HasMinorPhrase

\* C5: a tag-delimited reply with status important_conflicts and
\* user_decision_required true, without a markdown marker or the sentinel, is
\* parsed like the markdown important-conflicts reply: all three flags true.
C5_XmlImportant ==
    (/\ Parsed
     /\ Contains(Reply, STATUS_IMPORTANT)
     /\ Contains(Reply, DECISION_REQUIRED)
     /\ NoMarkdownMarker)
        => ReportIs(TRUE, TRUE, TRUE)

\* C6: a tag-delimited reply with status minor_conflicts and
\* user_decision_required false is parsed like the markdown minor-conflicts
\* reply: has_conflicts true, is_important false, needs_user_decision false.
C6_XmlMinor ==
    (/\ Parsed
     /\ Contains(Reply, STATUS_MINOR)
     /\ Contains(Reply, DECISION_NOT_REQUIRED)
     /\ ~Contains(Reply, STATUS_IMPORTANT)
     /\ NoMarkdownMarker)
        => ReportIs(TRUE, FALSE, FALSE)

(***************************************************************************)
(* Properties of the two-phase orchestrator                                *)
(***************************************************************************)
\* the phase-2 queries sent so far
Phase2Queries == { i \in 1..Len(sent) : sent[i].phase = 2 }

Phase1Queries == { i \in 1..Len(sent) : sent[i].phase = 1 }

\* C7: when the report needs a user decision and the operator declines, the
\* orchestrator returns the cancellation message and no phase-2 request is
\* sent in that invocation.
C7_DeclineCancels ==
    (Parsed /\ report[1].needs_user_decision /\ should_proceed = <<FALSE>>)
        => /\ pc = "cancelled"
           /\ result # <<>>
           /\ result[1].text = CANCELLED_MESSAGE
           /\ Phase2Queries = {}

\* the operator declined after a reply that carries the pause sentinel
C7_Witness ==
    /\ pc = "cancelled"
    /\ Parsed /\ HasPauseSentinel
    /\ should_proceed = <<FALSE>>
    /\ Len(sent) = 1

\* C8: when the report needs no user decision, no confirmation prompt is
\* issued and the orchestrator goes on to exactly one phase-2 request, which
\* carries 'No conflicts detected, proceeding with creation'.
C8_NoDecisionNoPrompt ==
    (Parsed /\ ~report[1].needs_user_decision)
        => /\ confirm_asked = 0
           /\ should_proceed = <<>>
           /\ pc \in {"phase2_open", "phase2_stream", "done", "raised", "interrupted"}
           /\ Cardinality(Phase2Queries) <= 1
           /\ pc \in {"phase2_stream", "done"} => Cardinality(Phase2Queries) = 1
           /\ \A i \in Phase2Queries :
                  /\ StartsWith(sent[i].prompt, NO_CONFLICTS_DETECTED)
                  /\ ~Contains(sent[i].prompt, USER_CONFIRMED)

\* a minor-conflict report went through to the end of phase 2 unprompted
C8_Witness ==
    /\ pc = "done"
    /\ Parsed /\ ReportIs(TRUE, FALSE, FALSE)
    /\ confirm_asked = 0
    /\ Cardinality(Phase2Queries) = 1

\* C9: in an interactive request the phase-2 request is sent at most once,
\* only after the phase-1 stream was consumed to its end and parsed, and,
\* when a decision is needed, only after the operator accepted; neither phase
\* is sent a second time.
C9_PhasesSequential ==
    /\ Cardinality(Phase1Queries) <= 1
    /\ Cardinality(Phase2Queries) <= 1
    /\ \A i \in Phase2Queries :
           /\ i = 2 /\ sent[1].phase = 1
           /\ interactive
           /\ Parsed
           /\ report[1].needs_user_decision => should_proceed = <<TRUE>>
    /\ pc \in {"phase1_open", "phase1_stream", "ask", "cancelled"} => Phase2Queries = {}
    /\ Parsed => pc \notin {"idle", "phase1_open", "phase1_stream"}

\* the operator accepted and phase 2 ran to its end
C9_Witness ==
    /\ pc = "done"
    /\ interactive
    /\ report[1].needs_user_decision
    /\ should_proceed = <<TRUE>>
    /\ Len(sent) = 2

\* C10 as stated: the phase-2 request is sent under a system prompt that
\* performs only the creation step, without conflict analysis, and that is a
\* different prompt from the one of phase 1.
C10_Phase2CreationOnlyPrompt_Original ==
    \A i \in Phase2Queries :
        /\ ~sent[i].system_prompt.conflict_analysis
        /\ sent[i].system_prompt # sent[1].system_prompt

\* C10 amended: the phase-2 request is sent under INTERACTIVE_SYSTEM_PROMPT,
\* the same system prompt as the phase-1 request, whose text covers both the
\* analysis and the creation step; the two requests differ in the prompt they
\* send, the phase-2 one ending with the instruction to create the events.
C10_Phase2SamePrompt ==
    \A i \in Phase2Queries :
        /\ sent[i].system_prompt = INTERACTIVE_SYSTEM_PROMPT
        /\ sent[i].system_prompt = sent[1].system_prompt
        /\ sent[i].system_prompt.creation_step
        /\ sent[i].prompt # sent[1].prompt
        /\ EndsWith(sent[i].prompt, PLEASE_PROCEED)

\* both requests of an interactive run have been sent
C10_Witness ==
    /\ interactive
    /\ Len(sent) = 2
    /\ sent[1].phase = 1 /\ sent[2].phase = 2
    /\ sent[1].system_prompt.forbids_creation_in_phase1

(***************************************************************************)
(* Properties of the command around the agent run                          *)
(***************************************************************************)
\* the command has ended
Exited == cmd_pc = "exited"

\* the last thing printed
LastPrinted == console[Len(console)]

\* C11: an error raised by the agent exchange in phase 1 or phase 2 leaves
\* the orchestrator without a retry of either phase (after an error in phase
\* 1 there is no confirmation prompt and no phase-2 request), and the command
\* ends with the error panel and exit code 1.
C11_AgentErrorFatal ==
    /\ [](pc = "raised" =>
            /\ result = <<>>
            /\ Cardinality(Phase1Queries) <= 1
            /\ Cardinality(Phase2Queries) <= 1
            /\ ~Parsed => (confirm_asked = 0 /\ Phase2Queries = {})
            /\ exit_code \in {<<>>, <<1>>}
            /\ Exited => /\ exit_code = <<1>>
                         /\ LastPrinted = format_error(AGENT_ERROR)[1])
    /\ [][pc = "raised" =>
            /\ pc' = "raised"
            /\ sent' = sent
            /\ confirm_asked' = confirm_asked
            /\ Exited'
            /\ exit_code' = <<1>>]_vars

\* the agent exchange failed while the phase-1 stream of an interactive
\* request was read, and the command has ended
C11_Witness ==
    /\ pc = "raised"
    /\ Exited
    /\ interactive
    /\ ~Parsed
    /\ Len(sent) = 1
    /\ received > 0

\* C13: whenever the agent run returned one or more tool-result records, the
\* rich output displayed for the request is formatted from them: each
\* record's summary appears in the Event row of an 'Event Created
\* Successfully' panel.
C13_ToolResultsDisplayed ==
    (/\ Exited
     /\ exit_code = <<0>>
     /\ argv.output_format = "rich"
     /\ result[1].tool_results # <<>>)
        => \A i \in 1..Len(result[1].tool_results) :
               \E k \in 1..Len(console) :
                   /\ Len(console[k]) = 3
                   /\ console[k][1] = "Panel"
                   /\ console[k][2] = "Event Created Successfully"
                   /\ \E r \in 1..Len(console[k][3]) :
                          /\ console[k][3][r][1] = "Event:"
                          /\ Contains(console[k][3][r][2],
                                      result[1].tool_results[i].items.summary)

(***************************************************************************)
(* Properties of the text-parsing formatter                                *)
(***************************************************************************)
\* the reply handed to format_event_response
FmtReply == result[1].text

\* the command has displayed the reply in rich format and returned
Displayed == Exited /\ exit_code = <<0>> /\ argv.output_format = "rich"

\* the reply carries a success indicator
SuccessReply == Contains(FmtReply, CHECKMARK) \/ Contains(FmtReply, <<"C","r","e","a","t","e","d">>)

\* the created-event panels on the console
EventPanels ==
    { k \in 1..Len(console) :
          /\ Len(console[k]) = 3
          /\ console[k][1] = "Panel"
          /\ console[k][2] = "Event Created Successfully" }

\* the values rendered in the rows with the given label
RowValues(label) ==
    UNION { { console[k][3][r][2] :
                  r \in { q \in 1..Len(console[k][3]) : console[k][3][q][1] = label } } :
            k \in EventPanels }

\* a clickable link cell showing url in full
LinkMarkup(url) == <<"[","l","i","n","k","=">> \o url \o <<"]">> \o url \o <<"[","/","l","i","n","k","]">>

TitleMarkup(title) == <<"[","b","o","l","d"," ","g","r","e","e","n","]">> \o title \o <<"[","/","b","o","l","d"," ","g","r","e","e","n","]">>

\* the link values of a text: every https:// token up to the next white space
\* or closing parenthesis
UrlPositions(s) == { i \in 1..Len(s) : StartsWith(SubSeq(s, i, Len(s)), <<"h","t","t","p","s",":","/","/">>) }

UrlAt(s, i) == <<"h","t","t","p","s",":","/","/">> \o UrlTail(SubSeq(s, i + 8, Len(s)))

UrlsIn(s) == { UrlAt(s, i) : i \in UrlPositions(s) }

\* the lines of the reply as the formatter walks them
FmtLinesOfReply == SplitLines(Strip(FmtReply))

\* a line from which a link is taken: it holds a Google Calendar URL and is
\* either a bolded bullet labelled Link: (and not labelled as date or
\* description) or any other line that is not explanatory text
CarriesLink(rawline) ==
    LET line == Strip(rawline)
    IN  /\ Contains(line, GOOGLE_CALENDAR_URL)
        /\ ~StartsWith(line, <<"I","'","l","l">>)
        /\ ~StartsWith(line, <<"N","o","w"," ","I","'","l","l">>)
        /\ StartsWith(line, <<"-"," ","*","*">>)
              => /\ Contains(line, <<"L","i","n","k",":">>)
                 /\ ~Contains(line, <<"D","a","t","e"," ","&"," ","T","i","m","e",":">>)
                 /\ ~Contains(line, <<"D","e","s","c","r","i","p","t","i","o","n",":">>)

\* the first Google Calendar URL of a line
FirstCalendarUrl(line) ==
    LET P == { i \in UrlPositions(line) : StartsWith(UrlAt(line, i), GOOGLE_CALENDAR_URL) }
    IN  UrlAt(line, CHOOSE i \in P : \A j \in P : i <= j)

LinkCarriers == { i \in 1..Len(FmtLinesOfReply) : CarriesLink(FmtLinesOfReply[i]) }

\* C14 as stated: for every success reply, every link value present anywhere
\* in the reply text appears in full in the Link row.
C14_EveryLinkInFull_Original ==
    (Displayed /\ SuccessReply)
        => \A url \in UrlsIn(FmtReply) : LinkMarkup(url) \in RowValues("Link:")

\* C14 amended: for every success reply the Link row shows the Google
\* Calendar URL of the last line that carries one (a bolded bullet labelled
\* Link:, or a line that is neither a bolded bullet nor explanatory text), in
\* full and without an ellipsis whatever its length, also when it stands inside
\* a markdown link; no other link value is rendered, and without such a line
\* there is no Link row.
C14_CalendarLinkInFull ==
    (Displayed /\ SuccessReply)
        => /\ RowValues("Link:") =
                  IF LinkCarriers = {} THEN {}
                  ELSE LET last == CHOOSE i \in LinkCarriers : \A j \in LinkCarriers : j <= i
                       IN  { LinkMarkup(FirstCalendarUrl(FmtLinesOfReply[last])) }
           /\ \A v \in RowValues("Link:") :
                  /\ ~Contains(v, <<".",".",".">>)
                  /\ \E url \in UrlsIn(FmtReply) : v = LinkMarkup(url)

\* a success reply whose long link stands inside a markdown link was rendered
C14_Witness ==
    /\ Displayed
    /\ SuccessReply
    /\ Contains(FmtReply, <<"]","(">> \o LONG_URL \o <<")">>)
    /\ RowValues("Link:") = { LinkMarkup(LONG_URL) }

\* the scenario reply: a checkmark line, the title, the labelled time and the
\* labelled link
ScenarioReply(header, link) ==
    JoinLines(<< header,
                 <<"-"," ","*","*","T","e","a","m"," ","M","e","e","t","i","n","g",
                   "*","*">>,
                 <<"-"," ","*","*","D","a","t","e"," ","&"," ","T","i","m","e",":",
                   "*","*"," ","M","o","n","d","a","y"," ","a","t"," ","2",":","0",
                   "0"," ","P","M"," ","-"," ","3",":","0","0"," ","P","M"," ","(",
                   "E","S","T",")">>,
                 <<"-"," ","*","*","E","v","e","n","t"," ","L","i","n","k",":","*",
                   "*"," ">> \o link >>)

CheckmarkHeaders == { h \in FmtHeaders : Contains(h, CHECKMARK) }

\* some rendered cell or prose contains the text
OutputContains(s) ==
    \/ \E label \in {"Event:", "When:", "Details:", "Link:"} :
           \E v \in RowValues(label) : Contains(v, s)
    \/ \E k \in 1..Len(console) :
           /\ Len(console[k]) = 3
           /\ console[k][1] = "Markdown"
           /\ Contains(console[k][3], s)

CAL_EXAMPLE_LINK == <<"h","t","t","p","s",":","/","/","c","a","l",".","e","x","a","m",
                      "p","l","e","/","e","?","e","i","d","=","a","b","c","1","2","3">>

GOOGLE_LINK == <<"h","t","t","p","s",":","/","/","w","w","w",".","g","o","o","g",
                 "l","e",".","c","o","m","/","c","a","l","e","n","d","a","r","/",
                 "e","v","e","n","t","?","e","i","d","=","a","b","c","1","2","3">>

\* C15 as stated: the scenario reply with the link
\* https://cal.example/e?eid=abc123 is rendered with the title, the time range
\* and the full link.
C15_ScenarioCalExample_Original ==
    (Displayed /\ \E h \in CheckmarkHeaders : FmtReply = ScenarioReply(h, CAL_EXAMPLE_LINK))
        => /\ OutputContains(<<"T","e","a","m"," ","M","e","e","t","i","n","g">>)
           /\ OutputContains(<<"2",":","0","0"," ","P","M"," ","-"," ","3",":","0","0"," ","P",
                               "M"," ","(","E","S","T",")">>)
           /\ OutputContains(CAL_EXAMPLE_LINK)

\* C15 amended: the scenario reply is rendered with the title 'Team Meeting'
\* in the Event row and 'Monday at 2:00 PM - 3:00 PM (EST)' in the When row;
\* with the Google Calendar link
\* https://www.google.com/calendar/event?eid=abc123 the Link row shows the full
\* link, and with https://cal.example/e?eid=abc123 no Link row is rendered.
C15_ScenarioGoogleLink ==
    \A link \in {CAL_EXAMPLE_LINK, GOOGLE_LINK} :
        (Displayed /\ \E h \in CheckmarkHeaders : FmtReply = ScenarioReply(h, link))
            => /\ RowValues("Event:") = { TitleMarkup(<<"T","e","a","m"," ","M","e","e","t","i","n","g">>) }
               /\ RowValues("When:") = { <<"M","o","n","d","a","y"," ","a","t"," ","2",":","0","0"," ","P",
                                           "M"," ","-"," ","3",":","0","0"," ","P","M"," ","(","E","S","T",
                                           ")">> }
               /\ RowValues("Link:") =
                      IF link = GOOGLE_LINK THEN { LinkMarkup(GOOGLE_LINK) } ELSE {}
               /\ OutputContains(<<"2",":","0","0"," ","P","M"," ","-"," ","3",":","0","0"," ","P",
                                   "M"," ","(","E","S","T",")">>)

\* the scenario reply with the Google Calendar link was rendered
C15_Witness ==
    /\ Displayed
    /\ \E h \in CheckmarkHeaders : FmtReply = ScenarioReply(h, GOOGLE_LINK)
    /\ OutputContains(GOOGLE_LINK)

\* C16: a reply with neither the checkmark glyph nor the word 'Created', the
\* empty reply included, is rendered whole as markdown prose: no field is
\* extracted and no created-event panel or note panel is printed.
C16_NoIndicatorFallsBackToMarkdown ==
    (Displayed /\ ~SuccessReply)
        => /\ EventPanels = {}
           /\ LastPrinted = <<"Markdown", "", FmtReply>>
           /\ \A k \in 1..Len(console) : console[k][1] = "Panel" => console[k][2] # "Note"

\* a reply without a success indicator that holds a title bullet and a link
\* was rendered
C16_Witness ==
    /\ Displayed
    /\ ~SuccessReply
    /\ Contains(FmtReply, <<"-"," ","*","*","T","e","a","m"," ","M","e","e","t","i","n","g",
                            "*","*">>)
    /\ Contains(FmtReply, GOOGLE_LINK)

\* the bolded bullets of the reply, in order
BulletLines ==
    SelectSeq([i \in 1..Len(FmtLinesOfReply) |-> Strip(FmtLinesOfReply[i])],
              LAMBDA l : StartsWith(l, <<"-"," ","*","*">>))

\* a bolded bullet that is a title without a label: - **title**
IsUnlabeledTitle(line) ==
    /\ StartsWith(line, <<"-"," ","*","*">>)
    /\ EndsWith(line, <<"*","*">>)
    /\ Len(line) > 6
    /\ \A i \in 5..(Len(line) - 2) : line[i] \notin {"*", ":"}

TitleOf(line) == SubSeq(line, 5, Len(line) - 2)

\* C17: for every success reply whose first bolded bullet is an unlabeled
\* title, whatever its text, that title is rendered in the Event row of the
\* created-event panel.
C17_FirstBulletIsTitle ==
    (Displayed /\ SuccessReply /\ BulletLines # <<>> /\ IsUnlabeledTitle(BulletLines[1]))
        => TitleMarkup(Strip(TitleOf(BulletLines[1]))) \in RowValues("Event:")

(***************************************************************************)
(* Properties of the input acquisition and of the exit codes               *)
(***************************************************************************)
\* the operator pressed Ctrl-C at some point of the invocation: in the
\* editor, or while the agent run was in progress or waiting at the prompt
InterruptedInEditor ==
    \E i \in 1..Len(locals.reads) :
        /\ locals.reads[i].source = "editor"
        /\ locals.reads[i].outcome.kind = "KeyboardInterrupt"

Interrupted == pc = "interrupted" \/ InterruptedInEditor

\* C12: a keyboard interrupt at any point of an add/default invocation (in
\* the editor, while waiting on phase 1, at the confirmation prompt, during
\* phase 2) ends the invocation with exit code 130, never with exit code 1.
C12_InterruptExits130 ==
    (Exited /\ Interrupted) => exit_code = <<130>>

\* the stripped text of a source, None if there is none
NonEmptyText(raw) == IF Strip(raw) # <<>> THEN <<Strip(raw)>> ELSE <<>>

\* the text each source yields, in the priority order direct, stdin,
\* clipboard (with the flag), editor (in editor mode)
SourceTexts ==
    << IF locals.event_description = <<>> THEN <<>>
       ELSE NonEmptyText(locals.event_description[1]),
       IF env.stdin.kind = "piped" THEN NonEmptyText(env.stdin.content) ELSE <<>>,
       IF argv.clipboard /\ env.clipboard.kind = "ok"
       THEN NonEmptyText(env.clipboard.content) ELSE <<>>,
       IF UseEditor THEN open_editor(env.editor) ELSE <<>> >>

Yielding == { k \in 1..4 : SourceTexts[k] # <<>> }

Rank(source) ==
    CASE source = "stdin" -> 2 [] source = "clipboard" -> 3 [] source = "editor" -> 4

\* C18: get_input returns the text of the first source that yields non-empty
\* text in the order direct input, stdin, clipboard, editor; no source of
\* lower priority than that one is read; and a clipboard request that yields
\* nothing gives no input without the editor being opened.
C18_FirstSourceWins ==
    cmd_pc = "check_input"
        => /\ IF Yielding = {} THEN Falsy(locals.user_input)
              ELSE LET first == CHOOSE k \in Yielding : \A j \in Yielding : k <= j
                   IN  /\ locals.user_input = SourceTexts[first]
                       /\ \A i \in 1..Len(locals.reads) :
                              Rank(locals.reads[i].source) <= first
           /\ (argv.clipboard /\ Yielding = {})
                  => \A i \in 1..Len(locals.reads) : locals.reads[i].source # "editor"

\* the no-input warning is on the console
NoInputWarned == \E k \in 1..Len(console) : console[k] = format_no_input_warning[1]

\* C19: when get_input obtained no text and no screenshot paths were
\* resolved, the command prints the no-input warning and exits with code 1
\* without a request to the agent; when screenshots were resolved and no text
\* was obtained, it goes on with the generic instruction to analyse the
\* screenshots as the user input, which is what the agent is sent.
C19_NoInputWarnsOrDefaults ==
    /\ [][cmd_pc = "check_input" =>
            IF Falsy(locals.user_input) /\ locals.screenshot_paths = <<>>
            THEN /\ Exited'
                 /\ exit_code' = <<1>>
                 /\ NoInputWarned'
                 /\ sent' = <<>> /\ pc' = "idle"
            ELSE /\ cmd_pc' = "create_events"
                 /\ exit_code' = <<>>
                 /\ locals'.user_input =
                        IF Falsy(locals.user_input) THEN <<ANALYZE_SCREENSHOTS>>
                        ELSE locals.user_input]_vars
    /\ [](NoInputWarned => (Exited /\ exit_code = <<1>> /\ sent = <<>> /\ pc = "idle"))
    /\ [](sent # <<>> =>
             /\ ~Falsy(locals.user_input)
             /\ user_input = locals.user_input[1]
             /\ screenshot_paths = locals.screenshot_paths
             /\ Contains(sent[1].prompt, locals.user_input[1]))

\* nothing was piped or typed and the editor gave nothing: the command has
\* warned and exited
C19_Witness ==
    /\ Exited
    /\ exit_code = <<1>>
    /\ NoInputWarned
    /\ locals.user_input = <<>>
    /\ Len(locals.reads) = 2
    /\ locals.reads[2].source = "editor"

\* the screenshot lookup found the directory without a matching file
FallbackWarned ==
    \E k \in 1..Len(console) :
        console[k] = <<"Pattern matching failed - screenshot localization issue detected.">>

\* C20: when screenshots are requested and the directory exists but holds no
\* matching file, the add command does not end before the agent run, and the
\* fallback instruction is part of the input sent to the agent, whether or
\* not an event description was given.
C20_FallbackReachesAgent ==
    FallbackWarned
        => /\ ~(Exited /\ pc = "idle")
           /\ \A i \in 1..Len(sent) :
                  sent[i].phase = 1
                      => Contains(sent[i].prompt, CLAUDE_FALLBACK_INSTRUCTION)

(***************************************************************************)
(* Properties of the screenshot lookup                                     *)
(***************************************************************************)
\* the line the add command prints for the FileNotFoundError (cli.py:179-180)
DIRECTORY_NOT_FOUND == <<"D","i","r","e","c","t","o","r","y"," ","n","o","t"," ","f","o",
                         "u","n","d",":"," ">> \o DESKTOP

DirectoryMissingReported ==
    \E k \in 1..Len(console) : console[k] = <<"[red]Error:[/red] ", DIRECTORY_NOT_FOUND>>

\* C21: when screenshots are requested and the screenshot directory does not
\* exist, find_recent_screenshots raises FileNotFoundError and the add
\* command reports the error, exits with code 1, and never acquires text
\* input or sends a request to the agent.
C21_MissingDirectoryFatal ==
    /\ [][\A d \in Desktops :
            (FindScreenshots(d) /\ argv.screenshot_count > 0 /\ ~d.exists)
                => /\ find_recent_screenshots(argv.screenshot_count, d).raised
                          = "FileNotFoundError"
                   /\ DirectoryMissingReported'
                   /\ Exited'
                   /\ exit_code' = <<1>>]_vars
    /\ [](DirectoryMissingReported
             => /\ Exited
                /\ exit_code = <<1>>
                /\ locals.reads = <<>>
                /\ locals.user_input = <<>>
                /\ sent = <<>>
                /\ pc = "idle")

\* gcallm add "Lunch Tue 12pm" --screenshots 2 with no Desktop directory:
\* the command has ended although a description was given
C21_Witness ==
    /\ DirectoryMissingReported
    /\ Exited
    /\ exit_code = <<1>>
    /\ argv.screenshot_count = 2
    /\ argv.event_description = <<<<"L","u","n","c","h"," ","T","u","e"," ","1","2","p","m">>>>
    /\ env.stdin.kind = "piped"

(***************************************************************************)
(* Properties of the editor session                                        *)
(***************************************************************************)
\* open_editor has returned or raised
OpenEditorLeft == edit.pc \in {"returned", "raised", "exited"}

\* C22: the temporary file that open_editor creates for editor-based input
\* no longer exists once open_editor has returned or raised, on every exit
\* path (normal save, empty content, editor exiting with a non-zero status,
\* editor executable missing, keyboard interrupt); a file path supplied by
\* the caller is never deleted by open_editor, and is deleted by the calling
\* config/prompt command on all of its exit paths.
C22_TemporaryFileRemoved ==
    /\ []((OpenEditorLeft /\ edit.file_path = <<>>)
              => /\ edit.edit_path = <<EDITOR_TEMP>>
                 /\ ~Exists(filesystem, EDITOR_TEMP))
    /\ [][(edit.pc \in {"call", "read", "finally"} /\ edit'.file_path # <<>>
               /\ edit'.pc \in {"editor", "finally", "returned", "raised"})
              => filesystem' = filesystem]_vars
    /\ []((edit.pc \in {"returned", "raised"} /\ edit.file_path # <<>>
               /\ edit.editor # "removed")
              => Exists(filesystem, edit.file_path[1]))
    /\ []((edit.pc = "exited" /\ edit.caller \in {"config", "prompt"})
              => /\ exit_code # <<>>
                 /\ ~Exists(filesystem, PROMPT_TEMP))

\* the operator pressed Ctrl-C in the editor that get_input had opened on a
\* temporary file
C22_Witness ==
    /\ edit.pc = "returned"
    /\ edit.caller = "get_input"
    /\ edit.editor = "KeyboardInterrupt"
    /\ edit.edit_path = <<EDITOR_TEMP>>
    /\ ~Exists(filesystem, EDITOR_TEMP)
    /\ Exists(filesystem, NOTES)

(***************************************************************************)
(* Properties of the captured tool results across requests                 *)
(***************************************************************************)
\* the records of a list were all captured during request n
CapturedDuring(tool_results, n) ==
    \A j \in 1..Len(tool_results) : tool_results[j].items.event_id = IntToStr(n)

\* C23: for any sequence of requests issued on the same CalendarAgent, the
\* captured tool-result list is reset to empty at the start of each
\* process_events request, so the tool_results returned for a request
\* contain only records captured during that request and never records
\* captured during an earlier request; resetting does not alter the list
\* already returned to the caller of an earlier request.
C23_ResultsPerRequest ==
    /\ [](pc = "phase1_open" => captured_tool_results = <<>>)
    /\ [](CapturedDuring(captured_tool_results, RequestNumber)
              \/ pc \in {"idle", "raised"})
    /\ [](result # <<>> => CapturedDuring(result[1].tool_results, RequestNumber))
    /\ [](\A k \in 1..Len(returned) : CapturedDuring(returned[k].tool_results, k))
    /\ [][/\ Len(returned') >= Len(returned)
          /\ \A k \in 1..Len(returned) :
                 returned'[k].tool_results = returned[k].tool_results]_vars

\* two requests were served and each captured a created event; the list of
\* the first is no longer the agent's list
C23_Witness ==
    /\ Len(returned) = 2
    /\ returned[1].tool_results # <<>>
    /\ returned[2].tool_results # <<>>
    /\ ~returned[1].shared
    /\ returned[2].shared

(***************************************************************************)
(* Properties of the entry point                                           *)
(***************************************************************************)
\* main has dispatched the invocation, or the process has ended
Dispatched == cmd_pc \in {"start", "exited"}

\* C24: main dispatches every invocation whose first argument is one of the
\* explicit subcommands (add, verify, status, calendars, setup, config,
\* prompt) to that subcommand's handler, and treats every other first
\* argument (options aside) as event text handled by the default command; no
\* invocation with arguments ends without either a subcommand handler or the
\* event-creation path being run.
C24_MainDispatches ==
    (Dispatched /\ sys_argv # <<>> /\ ~StartsWith(sys_argv[1], <<"-">>))
        => /\ cmd_pc = "start"
           /\ argv.command = IF sys_argv[1] \in AppCommands
                             THEN CommandName(sys_argv[1])
                             ELSE "default"

(***************************************************************************)
(* Properties of the phase-2 request and of the response streams           *)
(***************************************************************************)
\* the position of the first occurrence of a text in the prompt of query i
PromptPos(i, text) ==
    LET p  == sent[i].prompt
        at == { k \in 1..(Len(p) - Len(text) + 1) :
                    p[k] = text[1] /\ SubSeq(p, k, k + Len(text) - 1) = text }
    IN  IF at = {} THEN 0 ELSE CHOOSE k \in at : \A j \in at : k <= j

\* every phase-2 request sent so far opens with the decision message, then
\* has the original input, then the screenshot paths in their order
Phase2PromptsInOrder ==
    \A i \in Phase2Queries :
        LET p    == sent[i].prompt
            orig == PromptPos(i, <<"O","r","i","g","i","n","a","l"," ","r","e","q","u","e","s","t",
                                   ":"," ">> \o user_input \o <<"\n">>)
            pos  == [k \in 1..Len(screenshot_paths) |->
                         PromptPos(i, <<"-"," ">> \o screenshot_paths[k] \o <<"\n">>)]
        IN  /\ StartsWith(p, USER_CONFIRMED) <=> report[1].needs_user_decision
            /\ report[1].needs_user_decision => should_proceed = <<TRUE>>
            /\ StartsWith(p, user_decision(report[1]))
            /\ orig > Len(user_decision(report[1]))
            /\ \A k \in 1..Len(screenshot_paths) :
                   /\ pos[k] > orig + Len(user_input)
                   /\ \A j \in 1..(k - 1) : pos[j] < pos[k]

\* C25: when the operator accepts at the confirmation prompt, the single
\* phase-2 request contains, in this order, the decision message recording
\* the override ('User confirmed: proceed with event creation despite
\* conflicts'), the original user input, and every screenshot path of the
\* request in its original order; the override message is sent if and only
\* if the report had needs_user_decision = true.  The request is looked at
\* when it is sent; what it is compared with does not change afterwards.
C25_Phase2RequestContents ==
    /\ []((should_proceed = <<TRUE>> /\ pc \in {"phase2_stream", "done"})
              => Cardinality(Phase2Queries) = 1)
    /\ [][sent' # sent => Phase2PromptsInOrder']_vars
    /\ [][Phase2Queries # {}
              => UNCHANGED <<report, should_proceed, user_input, screenshot_paths>>]_vars

\* the operator accepted a request with two screenshots, and phase 2 ran
C25_Witness ==
    /\ pc = "done"
    /\ should_proceed = <<TRUE>>
    /\ Parsed /\ report[1].needs_user_decision
    /\ Len(screenshot_paths) = 2
    /\ Cardinality(Phase2Queries) = 1

(***************************************************************************)
(* Properties of the scan of a success reply                               *)
(***************************************************************************)
\* the title of current_event after each line of the scan, line by line
RECURSIVE TitleHistory(_, _)
TitleHistory(ev, lines) ==
    IF lines = <<>> THEN <<>>
    ELSE LET next == ScanLine(ev, Head(lines))
         IN  <<next.title>> \o TitleHistory(next, Tail(lines))

\* the bolded bullets that no branch of the scan takes for a field: plain
\* titles without a colon and without the time keywords
PlainTitles ==
    SelectSeq(BulletLines,
              LAMBDA l : /\ IsUnlabeledTitle(l)
                         /\ ~Contains(l, <<"a","t">>)
                         /\ ~Contains(l, <<"E","v","e","r","y"," ","d","a","y">>))

\* C26: during the line-by-line scan of a success reply in
\* format_event_response, once the event title has been set it is never
\* overwritten by any later bolded bullet line (first-match-wins), and
\* exactly one event record is accumulated per formatter invocation however
\* many events the reply lists.
C26_TitleFirstMatchWins ==
    []((Displayed /\ SuccessReply)
           => /\ LET titles == TitleHistory(EmptyEvent, FmtLinesOfReply)
                 IN  \A n \in 2..Len(titles) :
                         titles[n - 1] # <<>> => titles[n] = titles[n - 1]
              /\ PlainTitles # <<>>
                     => RowValues("Event:") = { TitleMarkup(TitleOf(PlainTitles[1])) }
              /\ Cardinality(EventPanels) <= 1
              /\ ScanLines(EmptyEvent, FmtLinesOfReply) # EmptyEvent
                     => Cardinality(EventPanels) = 1)

\* a reply that lists two events by their titles was displayed in one panel
C26_Witness ==
    /\ Displayed
    /\ SuccessReply
    /\ Len(PlainTitles) >= 2
    /\ PlainTitles[1] # PlainTitles[2]
    /\ Cardinality(EventPanels) = 1

(***************************************************************************)
(* The extractors of conflicts.py applied to phase-1 replies               *)
(***************************************************************************)
\* the sequences of at most n elements of S
RECURSIVE SeqsUpTo(_, _)
SeqsUpTo(S, n) ==
    IF n = 0 THEN { <<>> }
    ELSE SeqsUpTo(S, n - 1)
         \cup { Append(s, x) : s \in { t \in SeqsUpTo(S, n - 1) : Len(t) = n - 1 },
                               x \in S }

CONFLICTS_HEADER == <<"C","o","n","f","l","i","c","t","s"," ","d","e","t","e","c","t",
                      "e","d",":">>

\* lines of the conflict part of a phase-1 reply (agent.py:168-181)
ConflictLines ==
    { CONFLICTS_HEADER,
      <<"-"," ","*","*","A","*","*"," ","(","2"," ","P","M",")">>,
      <<"-"," ","*","*","B","*","*">>,
      <<"-"," ","*","*","c","o","n","f","l","i","c","t","s"," ","d","e",
        "t","e","c","t","e","d",":"," ","C","*","*">>,
      <<>>,
      AWAIT_USER_DECISION }

ConflictReplies ==
    { JoinLines(ls) : ls \in SeqsUpTo(ConflictLines, MaxConflictLines) \ { <<>> } }

\* the line above the bullets of the proposed events (agent.py:158, 170)
ProposedHeaders ==
    { <<>>,
      << <<"P","r","o","p","o","s","e","d"," ","e","v","e","n","t","(","s",
           ")",":">> >>,
      << <<"I"," ","w","i","l","l"," ","c","r","e","a","t","e"," ","t","h",
           "e"," ","f","o","l","l","o","w","i","n","g"," ","e","v","e","n",
           "t","(","s",")",":">> >>,
      << <<"S","u","m","m","a","r","y",":">> >> }

ProposedBullets ==
    { <<"-"," ","*","*","A","*","*">>, <<"-"," ","*","*","B","*","*">>, <<"-"," ","*","*","D","a","t","e",":","*","*"," ","F","r","i">> }

ProposedReplies ==
    { JoinLines(pre \o h \o bs) :
          pre \in { <<>>, << <<"N","o","t","e">> >> },
          h \in ProposedHeaders,
          bs \in SeqsUpTo(ProposedBullets, MaxBullets) } \ { <<>> }

\* what an extractor returned
Extracted(fn, value) == [fn |-> fn, value |-> value]

\* a caller applies extract_proposed_events to report.phase1_response
ExtractProposedEvents ==
    /\ report # <<>>
    /\ extracted = <<>>
    /\ extracted' = << Extracted("extract_proposed_events",
                                 extract_proposed_events(report[1].phase1_response)) >>
    /\ UNCHANGED <<agentVars, console, cmd_pc, argv, env, locals, exit_code,
                   filesystem, edit, sys_argv>>

\* a caller applies extract_conflicts to report.phase1_response
ExtractConflicts ==
    /\ report # <<>>
    /\ extracted = <<>>
    /\ extracted' = << Extracted("extract_conflicts",
                                 extract_conflicts(report[1].phase1_response)) >>
    /\ UNCHANGED <<agentVars, console, cmd_pc, argv, env, locals, exit_code,
                   filesystem, edit, sys_argv>>

\* a phase-1 reply has been parsed into a ConflictReport
InitExtract ==
    /\ pc = "idle"
    /\ interactive = TRUE
    /\ user_input \in UserInputs
    /\ screenshot_paths = <<>>
    /\ captured_tool_results = <<>>
    /\ options = <<>>
    /\ response_text = <<>>
    /\ received = 0
    /\ \E r \in ConflictReplies \cup ProposedReplies : report = <<from_response(r)>>
    /\ confirm_asked = 0
    /\ should_proceed = <<>>
    /\ sent = <<>>
    /\ result = <<>>
    /\ returned = <<>>
    /\ console = <<>>
    /\ cmd_pc = "agent_run"
    /\ exit_code = <<>>
    /\ env = QuietEnv
    /\ \E u \in UserInputs :
           /\ argv = Argv("add", <<u>>, FALSE, 0, TRUE, "rich")
           /\ locals = Locals(<<u>>, <<>>, <<u>>, <<>>)
    /\ HostIdle

NextExtract ==
    \/ ExtractProposedEvents
    \/ ExtractConflicts

SpecExtract == InitExtract /\ [][NextExtract]_vars

(***************************************************************************)
(* Properties of the extractors                                            *)
(***************************************************************************)
\* the lines of the parsed reply, each stripped
ReplyLines ==
    LET lines == SplitLines(report[1].phase1_response)
    IN  [i \in 1..Len(lines) |-> Strip(lines[i])]

IsConflictsHeader(line) == Contains(Lower(line), <<"c","o","n","f","l","i","c","t","s"," ","d","e","t","e","c","t",
                                                   "e","d",":">>)

IsBoldBullet(line) == StartsWith(line, <<"-"," ","*","*">>)

\* the smallest element of a non-empty set of numbers
Least(S) == CHOOSE x \in S : \A y \in S : x <= y

\* index of the first header line, 0 if there is none
FirstConflictsHeader ==
    LET at == { i \in 1..Len(ReplyLines) : IsConflictsHeader(ReplyLines[i]) }
    IN  IF at = {} THEN 0 ELSE Least(at)

\* index of the first blank line or line starting with "<<" after the
\* header, one past the last line if there is none
ConflictsSectionEnd ==
    LET at == { i \in (FirstConflictsHeader + 1)..Len(ReplyLines) :
                    ReplyLines[i] = <<>> \/ StartsWith(ReplyLines[i], <<"<","<">>) }
    IN  IF at = {} THEN Len(ReplyLines) + 1 ELSE Least(at)

\* the lines between the header and the end of its section
ConflictsSection ==
    IF FirstConflictsHeader = 0 THEN <<>>
    ELSE SubSeq(ReplyLines, FirstConflictsHeader + 1, ConflictsSectionEnd - 1)

\* each line without its first two characters
WithoutDash(lines) == [i \in 1..Len(lines) |-> SubSeq(lines[i], 3, Len(lines[i]))]

ConflictsExtracted ==
    extracted # <<>> /\ extracted[1].fn = "extract_conflicts"

ProposedExtracted ==
    extracted # <<>> /\ extracted[1].fn = "extract_proposed_events"

IsProposedHeader(line) ==
    Contains(Lower(line), <<"p","r","o","p","o","s","e","d">>) \/ Contains(Lower(line), <<"w","i","l","l"," ","c","r","e","a","t","e">>)

\* the text between the first "**" pair of a bolded bullet
BoldContent(line) ==
    LET rest == SubSeq(line, 5, Len(line))
        at   == { k \in 1..(Len(rest) - 1) : rest[k] = "*" /\ rest[k + 1] = "*" }
    IN  IF at = {} THEN rest ELSE SubSeq(rest, 1, Least(at) - 1)

IsDateField(line) == Contains(Lower(BoldContent(line)), <<"d","a","t","e">>)

\* the lines of the reply at the given indices, in order
LinesAt(S) ==
    LET RECURSIVE upTo(_)
        upTo(n) == IF n = 0 THEN <<>>
                   ELSE IF n \in S THEN Append(upTo(n - 1), ReplyLines[n])
                   ELSE upTo(n - 1)
    IN  upTo(Len(ReplyLines))

BoldContents(lines) == [i \in 1..Len(lines) |-> Strip(BoldContent(lines[i]))]

\* bolded bullets, not on the first line, with a header among the up to five
\* lines before them and no "date" in their bolded content
NearHeader ==
    { i \in 2..Len(ReplyLines) :
          /\ IsBoldBullet(ReplyLines[i])
          /\ ~IsDateField(ReplyLines[i])
          /\ \E j \in 1..(i - 1) : i - j <= PROPOSED_WINDOW /\ IsProposedHeader(ReplyLines[j]) }

\* bolded bullets below a header that are not date fields: the event titles
\* the reply lists
ListedTitles ==
    { i \in 2..Len(ReplyLines) :
          /\ IsBoldBullet(ReplyLines[i])
          /\ ~IsDateField(ReplyLines[i])
          /\ \E j \in 1..(i - 1) : IsProposedHeader(ReplyLines[j]) }

\* C28: extract_proposed_events returns the bolded content of exactly those
\* bolded bullet lines (not the first line of the reply) for which one of the
\* up to five preceding lines contains "proposed" or "will create" and whose
\* bolded content does not contain "date"; for a reply listing several
\* proposed events under one header it returns every event title and no date
\* field, and for a reply with no such header it returns an empty list.
C28_ProposedEventsExtracted ==
    ProposedExtracted
        => /\ extracted[1].value = BoldContents(LinesAt(NearHeader))
           /\ extracted[1].value = BoldContents(LinesAt(ListedTitles))
           /\ \A k \in 1..Len(extracted[1].value) :
                  ~Contains(Lower(extracted[1].value[k]), <<"d","a","t","e">>)
           /\ (\A i \in 1..Len(ReplyLines) : ~IsProposedHeader(ReplyLines[i]))
                  => extracted[1].value = <<>>

\* what does hold of the window: the titles returned are those of the
\* bullets at most five lines below a header line
C28_WindowOnly ==
    ProposedExtracted
        => /\ extracted[1].value = BoldContents(LinesAt(NearHeader))
           /\ (\A i \in 1..Len(ReplyLines) : ~IsProposedHeader(ReplyLines[i]))
                  => extracted[1].value = <<>>

(***************************************************************************)
(* The post-tool-use hook during one response stream                       *)
(***************************************************************************)
\* the hook calls of a stream in which two events are created and another
\* calendar tool answers with an event as well
HookCalls ==
    HookInputs
    \cup { HookInput(CREATE_EVENT_TOOL,
                     DictResponse([event_id |-> <<"d","e","f","4","5","6">>, summary |-> <<"L","u","n","c","h">>])),
           HookInput("mcp__google-calendar__update-event",
                     DictResponse([event_id |-> <<"u","p","d","7","8","9">>, summary |-> <<"M","o","v","e","d">>])) }

\* the hook fires during the stream
HookFires(hook_input) ==
    /\ Len(captured_tool_results) < MaxHookCaptures
    /\ post_tool_use_hook(hook_input)

\* a run up to the end of its first response stream
NextHooks ==
    \/ create_events
    \/ \E c \in CustomPrompts : AgentRun(c)
    \/ Phase1Query
    \/ \E m \in (IF interactive THEN Phase1Msgs ELSE Phase2Msgs) : Phase1Receive(m)
    \/ \E h \in HookCalls : HookFires(h)

SpecHooks == Init /\ [][NextHooks]_vars

\* the hook call is one for the create-event tool whose response is a
\* non-empty mapping with an event_id and a summary
Qualifies(h) ==
    /\ h.tool_name = "mcp__google-calendar__create-event"
    /\ h.tool_response.type = "dict"
    /\ DOMAIN h.tool_response.items # {}
    /\ {"event_id", "summary"} \subseteq DOMAIN h.tool_response.items

\* a mapping with both fields that the create-event tool answered with
FromCreateEvent(r) ==
    /\ r.type = "dict"
    /\ {"event_id", "summary"} \subseteq DOMAIN r.items
    /\ \E h \in HookCalls :
           h.tool_name = "mcp__google-calendar__create-event" /\ h.tool_response = r
    /\ \A h \in HookCalls :
           h.tool_response = r
               => \E g \in HookCalls :
                      /\ g.tool_name = "mcp__google-calendar__create-event"
                      /\ g.tool_response = r

\* C29: after any sequence of post-tool-use hook invocations every element of
\* captured_tool_results is a mapping that came from the create-event tool
\* and has both an event_id and a summary; an invocation for another tool,
\* for an empty or non-mapping response or for a response lacking a field
\* leaves the list unchanged, and each qualifying invocation appends exactly
\* one record, in arrival order.
C29_HookCaptures ==
    /\ [](\A k \in 1..Len(captured_tool_results) :
              FromCreateEvent(captured_tool_results[k]))
    /\ [][\A h \in HookCalls :
              HookFires(h)
                  => captured_tool_results' =
                         IF Qualifies(h)
                         THEN Append(captured_tool_results, h.tool_response)
                         ELSE captured_tool_results]_vars
    /\ [][captured_tool_results' # captured_tool_results
              => \E h \in HookCalls :
                     /\ Qualifies(h)
                     /\ captured_tool_results' =
                            Append(captured_tool_results, h.tool_response)]_vars

\* two different events were captured during one stream
C29_Witness ==
    /\ pc = "phase1_stream"
    /\ Len(captured_tool_results) = 2
    /\ captured_tool_results[1] # captured_tool_results[2]

(***************************************************************************)
(* Properties of the two response streams                                  *)
(***************************************************************************)
\* the client.query calls made for a phase
QueriesOf(phase) == Cardinality({ i \in 1..Len(sent) : sent[i].phase = phase })

\* the text fragments of a streamed message, in order: the texts of the text
\* blocks of an assistant message, nothing for any other message
TextFragments(msg) ==
    IF msg.type # "AssistantMessage" THEN <<>>
    ELSE LET texts == SelectSeq(msg.content, LAMBDA b : b.kind = "TextBlock")
         IN  [i \in 1..Len(texts) |-> texts[i].text]

StreamedMsgs == Phase1Msgs \cup Phase2Msgs

\* C30: for each phase the agent sends exactly one query and then consumes
\* response fragments until the stream is exhausted; the text returned for
\* the phase is the concatenation of all text fragments in arrival order, and
\* tool-invocation fragments and non-assistant messages contribute nothing to
\* the returned text.
C30_OneQueryThenConcatenate ==
    /\ [](/\ QueriesOf(1) <= 1
          /\ QueriesOf(2) <= 1
          /\ pc = "phase1_stream" => QueriesOf(1) = 1 /\ QueriesOf(2) = 0
          /\ pc = "phase2_stream" => QueriesOf(1) = 1 /\ QueriesOf(2) = 1
          /\ pc = "done" => QueriesOf(1) = 1 /\ QueriesOf(2) = (IF interactive THEN 1 ELSE 0)
          /\ received > 0 => pc \notin {"idle", "phase1_open"})
    /\ [][sent' # sent => received' = 0 /\ response_text' = <<>>]_vars
    /\ [][\A m \in StreamedMsgs :
              Phase1Receive(m) \/ Phase2Receive(m)
                  => /\ response_text' = response_text \o TextFragments(m)
                     /\ sent' = sent]_vars
    /\ [][received' # received /\ received' # 0
              => \E m \in StreamedMsgs :
                     response_text' = response_text \o TextFragments(m)]_vars
    /\ [][response_text' # response_text
              => received' # received \/ response_text' = <<>>]_vars
    /\ [][pc = "phase1_stream" /\ pc' \notin {"phase1_stream", "raised", "interrupted"}
              => IF interactive
                 THEN report' # <<>> /\ report'[1].phase1_response = Join(response_text)
                 ELSE result' # <<>> /\ result'[1].text = Join(response_text)]_vars
    /\ [][pc = "phase2_stream" /\ pc' \notin {"phase2_stream", "raised", "interrupted"}
              => result' # <<>> /\ result'[1].text = Join(response_text)]_vars

\* both phases ran: the second streamed a tool invocation and then a text,
\* and the text alone was returned
C30_Witness ==
    /\ pc = "done"
    /\ interactive
    /\ QueriesOf(1) = 1
    /\ QueriesOf(2) = 1
    /\ received = 2
    /\ \E i \in 1..Len(console) :
           console[i] = <<"Using tool: ", "mcp__google-calendar__create-event">>
    /\ result # <<>>
    /\ result[1].text = <<"C","r","e","a","t","e","d"," ","1"," ","e","v","e","n","t","(",
                          "s",")">>

====
